---------------------------- MODULE Spec2Model ----------------------------
(***************************************************************************)
(* A model of godump's rendering engine (src/unnamed/part_000): the        *)
(* Dumper and its options, the process-wide reference table, and           *)
(* writeDump / printValue walking a value graph through reflect.           *)
(*                                                                         *)
(* A Go value graph is a heap of cells.  A reflect.Value is a cell with    *)
(* the two flags of reflect that the code asks about: addressable          *)
(* (CanAddr) and read-only (obtained through an unexported field, so       *)
(* CanInterface is false).  The output is a sequence of tokens, one per    *)
(* Fprint of the code that carries information; indentation and line       *)
(* breaks inside a value are fixed text and are left out.                  *)
(***************************************************************************)
EXTENDS Integers, Sequences, FiniteSets, TLC

VARIABLES
    d,             \* the Dumper in use: its policy and its colorizer
    built,         \* history: the options d was built with
    noColor,       \* the environment: NO_COLOR is set
    nextRefID,     \* package variable nextRefID
    referenceMap,  \* package variable referenceMap
    last,          \* history: the most recent completed top-level call
    prev,          \* history: the call before it, when it was the same call
    run,           \* per goroutine: the render call in progress (SpecConc)
    tp             \* the HTTPDebugTransport in use, its sink and its last call

vars == <<d, built, noColor, nextRefID, referenceMap, last, prev, run, tp>>

---------------------------------------------------------------------------
(* Bounds of the model.                                                    *)

\* nodes of the longest linked chain among the inputs
MaxChain == 17
\* elements of the largest slice, array or map among the inputs
MaxLen == 3
\* runes of the longest string among the inputs
MaxStrLen == 3
\* a new top-level call is started only while nextRefID is at most this
MaxRefID == 3
\* printValue frames a goroutine stack holds before the runtime ends the
\* program with "stack overflow" (Go: 1 GB of stack); more than any
\* render of the inputs needs when it terminates
MaxStackFrames == 48
\* options of the longest option list given to NewDumper (SpecOpts)
MaxOpts == 2
\* dumps the sink of an HTTPDebugTransport holds before RoundTrip calls stop
MaxSink == 2
\* frames of the deepest call stack among the inputs (SpecHeader)
MaxFrames == 11
\* the longest byte slice given to the hex-dump formatter
MaxBytes == 33

(* Program constants.                                                      *)
defaultMaxDepth == 15
defaultMaxItems == 100
defaultMaxStringLen == 100000
defaultMaxStackDepth == 10
initialCallerSkip == 2
indentWidth == 2
\* the constants of formatByteSliceAsHexDump
lineLen == 16
asciiStartCol == 50
asciiMaxLen == 16

---------------------------------------------------------------------------
(* Cells: the values of the program.                                       *)

Cell(id, kind) ==
    [id |-> id, kind |-> kind, to |-> 0, fields |-> <<>>, elems |-> <<>>,
     keys |-> <<>>, runes |-> <<>>, num |-> 0, stringer |-> FALSE,
     elem |-> "", cap |-> 0]

Fld(name, exported, slot) == [name |-> name, exported |-> exported, slot |-> slot]

PtrCell(id, to) == [Cell(id, "ptr") EXCEPT !.to = to]
IfaceCell(id, to) == [Cell(id, "iface") EXCEPT !.to = to]
StructCell(id, fields) == [Cell(id, "struct") EXCEPT !.fields = fields]
MapCell(id, keys, elems) == [Cell(id, "map") EXCEPT !.keys = keys, !.elems = elems, !.to = 1]
SliceCell(id, elems) ==
    [Cell(id, "slice") EXCEPT !.elems = elems, !.to = 1, !.cap = Len(elems)]
ArrayCell(id, elems) == [Cell(id, "array") EXCEPT !.elems = elems]
IntCell(id, n) == [Cell(id, "int") EXCEPT !.num = n]
StringCell(id, s) == [Cell(id, "string") EXCEPT !.runes = s]
Uint8Cell(id, n) == [Cell(id, "uint8") EXCEPT !.num = n]

\* a slice or an array whose element type is elem: "uint8" for byte, or
\* the name of a defined type of kind uint8
BytesOf(c, elem) == [c EXCEPT !.elem = elem]


(* The cells of reference kinds (map, slice, func, chan) use to = 0 for    *)
(* nil and to = 1 for a non-nil value.                                     *)

ChainNode(k) == 40 + 2 * k - 1
ChainNext(k) == 40 + 2 * k
IntSlot(i) == 200 + i

\* type Node struct{ Next *Node }: a chain of MaxChain nodes, the last
\* one with a nil Next
ChainHeap ==
    [s \in 41 .. 40 + 2 * MaxChain |->
        IF s % 2 = 1
        THEN StructCell(s, <<Fld("Next", TRUE, s + 1)>>)
        ELSE PtrCell(s, IF s = ChainNext(MaxChain) THEN 0 ELSE s + 1)]

IntHeap == [s \in 201 .. 200 + MaxLen + 1 |-> IntCell(s, s - 200)]

NamedHeap ==
    \* n := &Node{}; n.Next = n
       (1 :> StructCell(1, <<Fld("Next", TRUE, 2)>>))
    @@ (2 :> PtrCell(2, 1))
    @@ (3 :> PtrCell(3, 1))
    \* Holder{N: n}
    @@ (4 :> StructCell(4, <<Fld("N", TRUE, 3)>>))
    \* var x any; x = &x
    @@ (5 :> IfaceCell(5, 6))
    @@ (6 :> PtrCell(6, 5))
    \* m := map[string]any{}; m["self"] = m
    @@ (7 :> MapCell(7, <<1>>, <<8>>))
    @@ (8 :> IfaceCell(8, 7))
    \* a := &Node{}; b := &Node{Next: a}; a.Next = b
    @@ (9 :> StructCell(9, <<Fld("Next", TRUE, 10)>>))
    @@ (10 :> PtrCell(10, 11))
    @@ (11 :> StructCell(11, <<Fld("Next", TRUE, 12)>>))
    @@ (12 :> PtrCell(12, 9))
    @@ (13 :> PtrCell(13, 9))
    \* type T struct{ m map[string]int }; map[string]T{"k": T{m: {"a": 1}}}
    @@ (14 :> MapCell(14, <<1>>, <<15>>))
    @@ (15 :> StructCell(15, <<Fld("m", FALSE, 16)>>))
    @@ (16 :> MapCell(16, <<1>>, <<17>>))
    @@ (17 :> IntCell(17, 1))
    \* type W struct{ I any }; W{I: T{...}}
    @@ (18 :> StructCell(18, <<Fld("I", TRUE, 19)>>))
    @@ (19 :> IfaceCell(19, 15))
    \* x := &X{V: 7}; D{A: x, B: x}
    @@ (20 :> StructCell(20, <<Fld("A", TRUE, 21), Fld("B", TRUE, 22)>>))
    @@ (21 :> PtrCell(21, 23))
    @@ (22 :> PtrCell(22, 23))
    @@ (23 :> StructCell(23, <<Fld("V", TRUE, 24)>>))
    @@ (24 :> IntCell(24, 7))
    \* &T{...}
    @@ (25 :> PtrCell(25, 15))
    \* type S struct{ I any }; s := &S{}; s.I = s
    @@ (26 :> StructCell(26, <<Fld("I", TRUE, 27)>>))
    @@ (27 :> IfaceCell(27, 28))
    @@ (28 :> PtrCell(28, 26))
    @@ (29 :> PtrCell(29, 26))
    \* type P *P; var p P; p = &p
    @@ (30 :> PtrCell(30, 30))
    @@ (31 :> PtrCell(31, 30))

\* nil values, and values whose type has a String method
NilHeap ==
    \* var p *string; var s []int; var m map[string]int; var e error;
    \* var f func(); var c chan int
       (101 :> PtrCell(101, 0))
    @@ (102 :> [SliceCell(102, <<>>) EXCEPT !.to = 0])
    @@ (103 :> [MapCell(103, <<>>, <<>>) EXCEPT !.to = 0])
    @@ (104 :> IfaceCell(104, 0))
    @@ (105 :> Cell(105, "func"))
    @@ (106 :> Cell(106, "chan"))
    \* ts := &Test{Name: "a", Embedded: nil}, Embedded an embedded *Embedded
    @@ (107 :> StructCell(107, <<Fld("Name", TRUE, 108), Fld("Embedded", TRUE, 109)>>))
    @@ (108 :> StringCell(108, <<97>>))
    @@ (109 :> PtrCell(109, 0))
    @@ (110 :> PtrCell(110, 107))
    \* a struct with a nil field of each kind, exported and not
    @@ (111 :> StructCell(111, <<Fld("P", TRUE, 101), Fld("S", TRUE, 102),
                                 Fld("M", TRUE, 103), Fld("I", TRUE, 104),
                                 Fld("F", TRUE, 105), Fld("C", TRUE, 106)>>))
    @@ (112 :> StructCell(112, <<Fld("p", FALSE, 101), Fld("s", FALSE, 102),
                                 Fld("m", FALSE, 103), Fld("i", FALSE, 104),
                                 Fld("f", FALSE, 105), Fld("c", FALSE, 106)>>))
    \* the latter as a map value: its fields cannot be forced readable
    @@ (113 :> MapCell(113, <<1>>, <<112>>))
    \* type BadStringer struct{}; func (b *BadStringer) String() string
    @@ (114 :> [PtrCell(114, 0) EXCEPT !.stringer = TRUE])
    @@ (115 :> StructCell(115, <<>>))
    @@ (116 :> [PtrCell(116, 115) EXCEPT !.stringer = TRUE])
    \* type Tags map[string]int; func (t Tags) String() string; var t Tags
    @@ (117 :> [MapCell(117, <<>>, <<>>) EXCEPT !.to = 0, !.stringer = TRUE])
    \* var s fmt.Stringer = (*BadStringer)(nil)
    @@ (118 :> IfaceCell(118, 114))
    \* struct{ S fmt.Stringer; P *BadStringer; T Tags; h *BadStringer }
    @@ (119 :> StructCell(119, <<Fld("S", TRUE, 118), Fld("P", TRUE, 114),
                                 Fld("T", TRUE, 117), Fld("h", FALSE, 114)>>))
    \* type FriendlyDuration int with a String method
    @@ (120 :> [IntCell(120, 5) EXCEPT !.stringer = TRUE])
    \* []*BadStringer{nil, &BadStringer{}}
    @@ (121 :> SliceCell(121, <<114, 116>>))
    \* Tags{"a": 1}
    @@ (122 :> [MapCell(122, <<1>>, <<17>>) EXCEPT !.stringer = TRUE])

\* the byte b as an element
ByteSlot(b) == 1000 + b

Uint8Heap == [s \in 1000 .. 1255 |-> Uint8Cell(s, s - 1000)]

ByteSlots(b) == [i \in 1 .. Len(b) |-> ByteSlot(b[i])]

\* the bytes 0 .. n-1 shifted by from
Ramp(from, n) == [i \in 1 .. n |-> (from + i - 1) % 256]

\* slices and arrays of bytes
ByteHeap ==
    \* []byte(`{"A`)
       (301 :> BytesOf(SliceCell(301, ByteSlots(<<123, 34, 65>>)), "uint8"))
    \* [2]byte{1, 65}
    @@ (302 :> BytesOf(ArrayCell(302, ByteSlots(<<1, 65>>)), "uint8"))
    \* type MyByte uint8; []MyByte{1, 65}
    @@ (303 :> BytesOf(SliceCell(303, ByteSlots(<<1, 65>>)), "MyByte"))
    \* net.IP{10, 0, 0, 1}: type IP []byte with a String method
    @@ (304 :> [BytesOf(SliceCell(304, ByteSlots(<<10, 0, 0, 1>>)), "uint8")
                  EXCEPT !.stringer = TRUE])
    \* var b []byte
    @@ (305 :> [BytesOf(SliceCell(305, <<>>), "uint8") EXCEPT !.to = 0])
    \* struct{ Blob []byte; blob []byte }
    @@ (306 :> StructCell(306, <<Fld("Blob", TRUE, 301), Fld("blob", FALSE, 301)>>))
    \* type B struct{ blob []byte }; map[string]B{"k": {blob: ...}}
    @@ (307 :> MapCell(307, <<1>>, <<308>>))
    @@ (308 :> StructCell(308, <<Fld("blob", FALSE, 301)>>))
    \* []byte{}
    @@ (309 :> BytesOf(SliceCell(309, <<>>), "uint8"))
    \* 17 bytes from 0x70 on, appended to: the capacity exceeds the length
    @@ (310 :> [BytesOf(SliceCell(310, ByteSlots(Ramp(112, 17))), "uint8")
                  EXCEPT !.cap = 32])
    \* [][]byte{...}: a slice of byte slices
    @@ (311 :> SliceCell(311, <<301, 309>>))
    \* &[2]byte{1, 65}
    @@ (312 :> PtrCell(312, 302))

\* structs with exported, unexported and embedded fields
StructHeap ==
    \* type Base struct{ ID int }; type Derived struct{ Base; Name string }
       (501 :> StructCell(501, <<Fld("ID", TRUE, 502)>>))
    @@ (502 :> IntCell(502, 456))
    @@ (503 :> StructCell(503, <<Fld("Base", TRUE, 501), Fld("Name", TRUE, 504)>>))
    @@ (504 :> StringCell(504, <<97, 10>>))
    \* type base = Base
    \* struct{ Name string; secret string; n int; base; Z int }
    @@ (505 :> StructCell(505, <<Fld("Name", TRUE, 504), Fld("secret", FALSE, 504),
                                 Fld("n", FALSE, 502), Fld("base", FALSE, 501),
                                 Fld("Z", TRUE, 502)>>))
    \* a pointer to it, a map and a slice that hold it
    @@ (506 :> PtrCell(506, 505))
    @@ (507 :> MapCell(507, <<1>>, <<505>>))
    @@ (508 :> SliceCell(508, <<503, 505>>))
    \* struct{ a, B int } whose two fields hold equal values
    @@ (509 :> StructCell(509, <<Fld("a", FALSE, 502), Fld("B", TRUE, 502)>>))

Heap ==
    NamedHeap @@ ChainHeap @@ IntHeap @@ NilHeap @@ Uint8Heap @@ ByteHeap @@ StructHeap

---------------------------------------------------------------------------
(* reflect.Value and the operations of reflect the code uses.              *)

Value(cell, addr, ro) == [cell |-> cell, addr |-> addr, ro |-> ro]

\* reflect.ValueOf(v) of an argument: neither addressable nor read-only.
\* The argument is passed as any: a nil interface gives the invalid Value,
\* another interface the value it holds
ValueOf(cell) ==
    IF cell.kind # "iface" THEN Value(cell, FALSE, FALSE)
    ELSE IF cell.to = 0 THEN Value(Cell(0, "invalid"), FALSE, FALSE)
    ELSE Value(Heap[cell.to], FALSE, FALSE)

Kind(v) == v.cell.kind
IsValid(v) == v.cell.kind # "invalid"
CanAddr(v) == v.addr
CanInterface(v) == ~v.ro
IsNil(v) == v.cell.to = 0

\* v.Elem(): the pointee is addressable, the content of an interface is a
\* copy and is not; both keep the read-only flag
Elem(v) ==
    IF Kind(v) = "ptr"
    THEN Value(Heap[v.cell.to], TRUE, v.ro)
    ELSE Value(Heap[v.cell.to], FALSE, v.ro)

\* v.Field(i): addressable as the struct is; read-only when the struct is
\* or the field is unexported
Field(v, i) ==
    Value(Heap[v.cell.fields[i].slot], v.addr, v.ro \/ ~v.cell.fields[i].exported)

\* v.Index(i), i from 0: an element of a slice is addressable, one of an
\* array as the array is
Index(v, i) ==
    Value(Heap[v.cell.elems[i + 1]], IF Kind(v) = "slice" THEN TRUE ELSE v.addr, v.ro)

\* v.MapIndex(key) for the key at position p: a copy
MapIndex(v, p) == Value(Heap[v.cell.elems[p]], FALSE, v.ro)

\* v.Type().Elem().Kind() of a slice or an array: uint8 for byte and for
\* every defined type whose underlying type is uint8
ElemKind(v) == IF v.cell.elem = "" THEN "other" ELSE "uint8"

\* v.CanConvert(reflect.TypeOf([]byte{})): a slice type whose underlying
\* type is []uint8.  reflect has no conversion from an array to a slice,
\* nor between slices of different element types
CanConvert(v) == Kind(v) = "slice" /\ v.cell.elem = "uint8"

\* the []byte a byte slice converts to
Bytes(v) == [b |-> [i \in 1 .. Len(v.cell.elems) |-> Heap[v.cell.elems[i]].num],
             cap |-> v.cell.cap]

---------------------------------------------------------------------------
(* Helpers of the package.                                                 *)

\* forceExported: a read-only value is read through its address when it
\* has one; otherwise it comes back as it is, still read-only
forceExported(v) ==
    IF CanInterface(v) THEN v
    ELSE IF CanAddr(v) THEN Value(v.cell, TRUE, FALSE)
    ELSE v

\* the storage reflect.New allocates: no address of the caller's
NewStorage == 0

\* mutant: the struct is made addressable in place
makeAddressableStores_InPlace(v) ==
    IF ~CanAddr(v) /\ Kind(v) = "struct" THEN {v.cell.id} ELSE {}

\* the addresses makeAddressable stores to: ptr.Elem().Set(v) writes the
\* copy of a struct into the storage reflect.New gave it
makeAddressableStores(v) ==
    IF ~CanAddr(v) /\ Kind(v) = "struct" THEN {NewStorage} ELSE {}

\* makeAddressable: only a struct is copied into fresh addressable storage
makeAddressable(v) ==
    IF CanAddr(v) THEN v
    ELSE IF Kind(v) = "struct" THEN Value(v.cell, TRUE, FALSE)
    ELSE v

\* mutant: isNil without the slices and the maps
isNil_NoCollections(v) ==
    IF Kind(v) \in {"ptr", "iface", "func", "chan"}
    THEN IsNil(v)
    ELSE FALSE

isNil(v) ==
    IF Kind(v) \in {"ptr", "slice", "map", "iface", "func", "chan"}
    THEN IsNil(v)
    ELSE FALSE

\* the runes of the model's strings: 'a', '\n', ESC
Runes == {97, 10, 27}
Ellipsis == <<8230>>

\* replacer: each control character becomes its escape, written out:
\* \n \t \r \v \f as backslash and a letter, ESC as \x1b
replacer(r) ==
    CASE r = 10 -> <<92, 110>>
      [] r = 9  -> <<92, 116>>
      [] r = 13 -> <<92, 114>>
      [] r = 11 -> <<92, 118>>
      [] r = 12 -> <<92, 102>>
      [] r = 27 -> <<92, 120, 49, 98>>
      [] OTHER  -> <<r>>

RECURSIVE escapeControl(_)
escapeControl(s) ==
    IF s = <<>> THEN <<>> ELSE replacer(Head(s)) \o escapeControl(Tail(s))

---------------------------------------------------------------------------
(* The Dumper and its options.                                             *)

\* mutant: a negative depth is taken, not ignored
WithMaxDepth_TakesNegative(dd, n) == [dd EXCEPT !.maxDepth = n]

\* mutant: a negative item limit is taken, not ignored
WithMaxItems_TakesNegative(dd, n) == [dd EXCEPT !.maxItems = n]

\* an Option is [opt, n]
WithMaxDepth(dd, n) == IF n >= 0 THEN [dd EXCEPT !.maxDepth = n] ELSE dd
WithMaxItems(dd, n) == IF n >= 0 THEN [dd EXCEPT !.maxItems = n] ELSE dd
WithMaxStringLen(dd, n) == IF n >= 0 THEN [dd EXCEPT !.maxStringLen = n] ELSE dd
WithSkipStackFrames(dd, n) == IF n >= 0 THEN [dd EXCEPT !.skippedStackFrames = n] ELSE dd

ApplyOption(dd, o) ==
    CASE o.opt = "WithMaxDepth" -> WithMaxDepth(dd, o.n)
      [] o.opt = "WithMaxItems" -> WithMaxItems(dd, o.n)
      [] o.opt = "WithMaxStringLen" -> WithMaxStringLen(dd, o.n)
      [] o.opt = "WithSkipStackFrames" -> WithSkipStackFrames(dd, o.n)

RECURSIVE ApplyOptions(_, _)
ApplyOptions(dd, opts) ==
    IF opts = <<>> THEN dd ELSE ApplyOptions(ApplyOption(dd, Head(opts)), Tail(opts))

NewDumper(opts) ==
    ApplyOptions([maxDepth |-> defaultMaxDepth,
                  maxItems |-> defaultMaxItems,
                  maxStringLen |-> defaultMaxStringLen,
                  skippedStackFrames |-> 0,
                  colorizer |-> "nil"], opts)

detectColor(env) == IF env THEN FALSE ELSE TRUE

newColorizer(env) == IF detectColor(env) THEN "ANSI" ELSE "Unstyled"

---------------------------------------------------------------------------
(* The render in progress: rs is the goroutine's stack of printValue       *)
(* frames, the output written so far, the Dumper's colorizer, and the      *)
(* package variables as the goroutine sees them.                           *)

\* a token of the output: t is the text's role, n a number in it (an id, an
\* index, a key, an integer value), name a field name, s the runes of a
\* string body
Tok(t, n) == [t |-> t, n |-> n, name |-> "", s |-> <<>>]
FieldTok(symbol, name) == [t |-> symbol, n |-> 0, name |-> name, s |-> <<>>]
StrTok(s) == [t |-> "string", n |-> 0, name |-> "", s |-> s]
NoTok == Tok("", 0)

\* d.colorize: the colorizer is chosen at the first use, and applied
colorize(rs) ==
    IF rs.colorizer = "nil"
    THEN [rs EXCEPT !.colorizer = newColorizer(rs.env), !.used = TRUE]
    ELSE [rs EXCEPT !.used = TRUE]

\* fmt.Fprint(w, d.colorize(code, text))
Emit(rs, tok) == [colorize(rs) EXCEPT !.out = Append(@, tok)]

\* fmt.Fprint(w, text), no color
EmitPlain(rs, tok) == [rs EXCEPT !.out = Append(@, tok)]

Frame(v, indent) == [pc |-> "printValue", v |-> v, indent |-> indent, i |-> 0, keys |-> <<>>]

Top(rs) == rs.stack[Len(rs.stack)]
SetTop(rs, f) == [rs EXCEPT !.stack[Len(rs.stack)] = f]
Return(rs) == [rs EXCEPT !.stack = SubSeq(@, 1, Len(@) - 1)]

\* a call of printValue: one more frame, unless the stack is full
Call(rs, v, indent) ==
    IF Len(rs.stack) >= MaxStackFrames
    THEN [rs EXCEPT !.status = "stack overflow"]
    ELSE [rs EXCEPT !.stack = Append(@, Frame(v, indent))]

Panic(rs) == [rs EXCEPT !.status = "panic"]

---------------------------------------------------------------------------
(* printValue.                                                             *)

\* mutant: asStringer without the nil pointer check
asStringer_NoNilCheck(v) ==
    LET val == IF ~CanInterface(v) THEN forceExported(v) ELSE v
        s == IF Kind(val) = "iface" /\ ~IsNil(val) THEN Heap[val.cell.to] ELSE val.cell
    IN  IF CanInterface(val) /\ s.stringer
        THEN Tok("String", s.id)
        ELSE NoTok

\* asStringer: the text to print for a value whose (forced readable)
\* content implements fmt.Stringer, NoTok for the empty string.  The token
\* "String" stands for a call of the value's String method.
asStringer(v) ==
    LET val == IF ~CanInterface(v) THEN forceExported(v) ELSE v
        \* val.Interface(): the content of an interface, else the value
        s == IF Kind(val) = "iface" /\ ~IsNil(val) THEN Heap[val.cell.to] ELSE val.cell
    IN  IF CanInterface(val) /\ s.stringer
        THEN IF s.kind = "ptr" /\ s.to = 0
             THEN Tok("nil", 0)
             ELSE Tok("String", s.id)
        ELSE NoTok

\* mutant: the depth guard off by one
DepthExceeded_OffByOne(dd, indent) == indent >= dd.maxDepth

\* the depth guard: indent > d.maxDepth
DepthExceeded(dd, indent) == indent > dd.maxDepth

\* mutant: the item limit off by one
ItemLimitReached_OffByOne(dd, i) == i > dd.maxItems

\* the item limit of the map and slice loops: i >= d.maxItems
ItemLimitReached(dd, i) == i >= dd.maxItems

\* mutant: the cut off by one rune
TruncateString_OffByOne(dd, str) ==
    IF Len(str) > dd.maxStringLen
    THEN SubSeq(str, 1, dd.maxStringLen + 1) \o Ellipsis
    ELSE str

\* the string case: an escaped text longer than maxStringLen runes is cut
\* to that many runes and gets an ellipsis
TruncateString(dd, str) ==
    IF Len(str) > dd.maxStringLen
    THEN SubSeq(str, 1, dd.maxStringLen) \o Ellipsis
    ELSE str

\* v.MapKeys(): the keys (their positions in the cell) in the order the
\* runtime gives them, which is ord restricted to the map's keys
MapKeys(v, ord) == SelectSeq(ord, LAMBDA p : p <= Len(v.cell.keys))

\* the cycle check finds the pointer in the reference table
Referenced(rs, v) ==
    Kind(v) = "ptr" /\ CanAddr(v) /\ v.cell.to \in DOMAIN rs.referenceMap

\* mutant: the id counter is not advanced
Register_SameID(rs, v) ==
    IF Kind(v) = "ptr" /\ CanAddr(v)
    THEN [rs EXCEPT !.referenceMap = (v.cell.to :> rs.nextRefID) @@ @]
    ELSE rs

\* the cycle check registers an addressable pointer under the next id
Register(rs, v) ==
    IF Kind(v) = "ptr" /\ CanAddr(v)
    THEN [rs EXCEPT !.referenceMap = (v.cell.to :> rs.nextRefID) @@ @,
                    !.nextRefID = @ + 1]
    ELSE rs

\* the built-in min and max
min(a, b) == IF a <= b THEN a ELSE b
max(a, b) == IF a >= b THEN a ELSE b

\* strings.Repeat(" ", n)
Spaces(n) == [i \in 1 .. n |-> 32]

\* fmt.Sprintf("%d", n), n >= 0
RECURSIVE Decimal(_)
Decimal(n) ==
    IF n < 10 THEN <<48 + n>> ELSE Decimal(n \div 10) \o <<48 + (n % 10)>>

\* fmt.Sprintf("%0wx", n), n < 16^w: w lower-case hexadecimal digits
RECURSIVE Hex(_, _)
Hex(n, w) ==
    IF w = 0 THEN <<>>
    ELSE Hex(n \div 16, w - 1)
           \o <<IF n % 16 < 10 THEN 48 + (n % 16) ELSE 87 + (n % 16)>>

\* "([]uint8) (len=%d cap=%d) {\n"
hexHeader(b) ==
    <<40, 91, 93, 117, 105, 110, 116, 56, 41, 32, 40, 108, 101, 110, 61>>
      \o Decimal(Len(b.b)) \o <<32, 99, 97, 112, 61>> \o Decimal(b.cap)
      \o <<41, 32, 123, 10>>

\* mutant: the columns a short line lacks are left out
RECURSIVE hexColumns_NoBlanks(_, _)
hexColumns_NoBlanks(line, j) ==
    IF j >= Len(line) THEN <<>>
    ELSE Hex(line[j + 1], 2) \o <<32>>
           \o (IF j = 7 THEN <<32>> ELSE <<>>)
           \o hexColumns_NoBlanks(line, j + 1)

\* the hex columns j .. lineLen-1 of a line: two digits and a space for a
\* byte, three spaces where the line has none, one more space after column 7
RECURSIVE hexColumns(_, _)
hexColumns(line, j) ==
    IF j >= lineLen THEN <<>>
    ELSE (IF j < Len(line) THEN Hex(line[j + 1], 2) \o <<32>> ELSE <<32, 32, 32>>)
           \o (IF j = 7 THEN <<32>> ELSE <<>>)
           \o hexColumns(line, j + 1)

\* the body line of the bytes from offset i on
hexLine(b, i, indent) ==
    LET end == min(i + lineLen, Len(b.b))
        line == SubSeq(b.b, i + 1, end)
        offsetStr == Hex(i, 8) \o <<32, 32>>
        columns == hexColumns(line, 0)
        visibleLen == Len(offsetStr) + Len(columns)
        padding == max(1, asciiStartCol - visibleLen)
        ascii == [k \in 1 .. Len(line) |->
                    IF line[k] >= 32 /\ line[k] <= 126 THEN line[k] ELSE 46]
        fill == IF Len(line) < asciiMaxLen
                THEN Spaces(asciiMaxLen - Len(line))
                ELSE <<>>
    IN  Spaces(indent * indentWidth) \o offsetStr \o columns \o Spaces(padding)
          \o <<124, 32>> \o ascii \o fill \o <<32, 124, 10>>

\* the loop over the lines, from offset i on
RECURSIVE hexLines(_, _, _)
hexLines(b, i, indent) ==
    IF i >= Len(b.b) THEN <<>>
    ELSE hexLine(b, i, indent) \o hexLines(b, i + lineLen, indent)

\* formatByteSliceAsHexDump(b, indent): the text, as its characters.  The
\* colors are left out
formatByteSliceAsHexDump(b, indent) ==
    hexHeader(b) \o hexLines(b, 0, indent)
      \o Spaces(indent * indentWidth - indentWidth) \o <<125>>

HexTok(text) == [t |-> "hexdump", n |-> 0, name |-> "", s |-> text]

\* the second switch of printValue, on the kind
printKind(dd, ord, rs) ==
    LET f == Top(rs)
        v == f.v
    IN  CASE Kind(v) \in {"ptr", "iface"} ->
               Call(SetTop(rs, [f EXCEPT !.pc = "return"]), Elem(v), f.indent)
          [] Kind(v) = "struct" ->
               SetTop(Emit(rs, Tok("struct", v.cell.id)), [f EXCEPT !.pc = "fields"])
          [] Kind(v) = "map" ->
               SetTop(EmitPlain(rs, Tok("{", 0)),
                      [f EXCEPT !.pc = "map", !.keys = MapKeys(v, ord)])
          [] Kind(v) \in {"slice", "array"} ->
               IF ElemKind(v) = "uint8" /\ CanConvert(v)
               THEN \* Convert(...).Interface() panics on a read-only value
                    IF ~CanInterface(v) THEN Panic(rs)
                    ELSE Return(Emit(rs, HexTok(formatByteSliceAsHexDump(Bytes(v),
                                                                         f.indent + 1))))
               ELSE SetTop(EmitPlain(rs, Tok("[", 0)), [f EXCEPT !.pc = "elems"])
          [] Kind(v) = "string" ->
               Return(Emit(rs, StrTok(TruncateString(dd, escapeControl(v.cell.runes)))))
          [] Kind(v) = "int" ->
               Return(Emit(rs, Tok("int", v.cell.num)))
          [] Kind(v) = "uint8" ->
               Return(Emit(rs, Tok("uint", v.cell.num)))
          [] Kind(v) = "func" ->
               Return(Emit(rs, Tok("func", 0)))

\* printValue from its entry to the second switch
printValue(dd, ord, rs) ==
    LET f == Top(rs)
        v == f.v
    IN  IF DepthExceeded(dd, f.indent) THEN Return(Emit(rs, Tok("max depth", 0)))
        ELSE IF ~IsValid(v) THEN Return(Emit(rs, Tok("invalid", 0)))
        ELSE IF asStringer(v) # NoTok THEN Return(Emit(rs, asStringer(v)))
        ELSE IF Kind(v) = "chan"
             THEN Return(Emit(rs, IF IsNil(v) THEN Tok("nil", 0) ELSE Tok("chan", 0)))
        ELSE IF isNil(v) THEN Return(Emit(rs, Tok("nil", 0)))
        ELSE IF Referenced(rs, v)
             THEN Return(Emit(rs, Tok("ref", rs.referenceMap[v.cell.to])))
        ELSE printKind(dd, ord, Register(rs, v))

\* mutant: every field is marked exported
symbol_AlwaysPlus(field) == "+"

\* the symbol before a field's name: "-" when field.PkgPath is not empty
symbol(field) == IF field.exported THEN "+" ELSE "-"

\* one turn of the struct case's field loop, f.i fields done
printFields(dd, rs) ==
    LET f == Top(rs)
        v == f.v
    IN  IF f.i >= Len(v.cell.fields)
        THEN Return(EmitPlain(rs, Tok("}", 0)))
        ELSE LET field == v.cell.fields[f.i + 1]
                 fieldVal == IF field.exported
                             THEN Field(v, f.i + 1)
                             ELSE forceExported(Field(v, f.i + 1))
                 rs1 == Emit(rs, FieldTok(symbol(field), field.name))
                 rs2 == SetTop(rs1, [f EXCEPT !.i = @ + 1])
             IN  IF asStringer(fieldVal) # NoTok
                 THEN Emit(rs2, asStringer(fieldVal))
                 ELSE Call(rs2, fieldVal, f.indent + 1)

\* one turn of the map case's loop over keys; key.Interface() panics on a
\* key of a read-only map
printMap(dd, rs) ==
    LET f == Top(rs)
        v == f.v
    IN  IF f.i >= Len(f.keys)
        THEN Return(EmitPlain(rs, Tok("}", 0)))
        ELSE IF ItemLimitReached(dd, f.i)
        THEN Return(EmitPlain(Emit(rs, Tok("truncated", 0)), Tok("}", 0)))
        ELSE IF ~CanInterface(v)
        THEN Panic(rs)
        ELSE Call(SetTop(Emit(rs, Tok("key", v.cell.keys[f.keys[f.i + 1]])),
                         [f EXCEPT !.i = @ + 1]),
                  MapIndex(v, f.keys[f.i + 1]), f.indent + 1)

\* one turn of the slice/array case's loop
printElems(dd, rs) ==
    LET f == Top(rs)
        v == f.v
    IN  IF f.i >= Len(v.cell.elems)
        THEN Return(EmitPlain(rs, Tok("]", 0)))
        ELSE IF ItemLimitReached(dd, f.i)
        THEN Return(EmitPlain(Emit(rs, Tok("truncated", 0)), Tok("]", 0)))
        ELSE Call(SetTop(Emit(rs, Tok("index", f.i)), [f EXCEPT !.i = @ + 1]),
                  Index(v, f.i), f.indent + 1)

\* one turn of writeDump's loop over the arguments, a line break after each
writeDumpLoop(rs) ==
    LET f == Top(rs)
        rs1 == IF f.i > 0 THEN EmitPlain(rs, Tok("newline", 0)) ELSE rs
    IN  IF f.i >= Len(rs.vs)
        THEN [rs1 EXCEPT !.status = "done"]
        ELSE Call(SetTop([rs1 EXCEPT !.stores =
                                 @ \cup makeAddressableStores(ValueOf(rs.vs[f.i + 1]))],
                         [f EXCEPT !.i = @ + 1]),
                  makeAddressable(ValueOf(rs.vs[f.i + 1])), 0)

\* the next step of the render
Step(dd, ord, rs) ==
    CASE Top(rs).pc = "writeDump" -> writeDumpLoop(rs)
      [] Top(rs).pc = "printValue" -> printValue(dd, ord, rs)
      [] Top(rs).pc = "fields" -> printFields(dd, rs)
      [] Top(rs).pc = "map" -> printMap(dd, rs)
      [] Top(rs).pc = "elems" -> printElems(dd, rs)
      [] Top(rs).pc = "return" -> Return(rs)

\* the render run to its end: done, a panic, or a stack overflow
RECURSIVE RunToEnd(_, _, _)
RunToEnd(dd, ord, rs) ==
    IF rs.status # "running" THEN rs ELSE RunToEnd(dd, ord, Step(dd, ord, rs))

---------------------------------------------------------------------------
(* The header and the top-level entry points.                              *)

\* a frame of the call stack as d.callerFn(i) reports it: whether its
\* function is known and has "godump" in its name, whether its file ends
\* in _test.go, and the file and the line
CallerFrame(godump, test, line) ==
    [godump |-> godump, test |-> test, file |-> "file.go", line |-> line]

NoFrame == [file |-> "", line |-> 0]

\* mutant: the frames to skip are not skipped
RECURSIVE findFrom_IgnoresSkip(_, _, _)
findFrom_IgnoresSkip(cs, i, skip) ==
    IF i >= defaultMaxStackDepth THEN NoFrame
    ELSE IF i + 1 > Len(cs) THEN NoFrame
    ELSE IF ~cs[i + 1].godump \/ cs[i + 1].test
         THEN [file |-> cs[i + 1].file, line |-> cs[i + 1].line]
         ELSE findFrom_IgnoresSkip(cs, i + 1, skip)

\* findFirstNonInternalFrame, from frame i on
RECURSIVE findFrom(_, _, _)
findFrom(cs, i, skip) ==
    IF i >= defaultMaxStackDepth THEN NoFrame
    ELSE IF i + 1 > Len(cs) THEN NoFrame
    ELSE IF ~cs[i + 1].godump \/ cs[i + 1].test
         THEN IF skip > 0
              THEN findFrom(cs, i + 1, skip - 1)
              ELSE [file |-> cs[i + 1].file, line |-> cs[i + 1].line]
         ELSE findFrom(cs, i + 1, skip)

findFirstNonInternalFrame(cs, skip) == findFrom(cs, initialCallerSkip, skip)

\* printDumpHeader: nothing when no frame is found
printDumpHeader(dd, cs, rs) ==
    LET fr == findFirstNonInternalFrame(cs, dd.skippedStackFrames)
    IN  IF fr.file = "" THEN rs ELSE Emit(rs, Tok("header", fr.line))

NoValue == ValueOf(Cell(0, "invalid"))

EmptyMap == [a \in {} |-> 0]

\* the render of DumpStr(vs...) as it starts: the header is printed and
\* writeDump has reset the reference table
BeginDumpStr(dd, env, cs, vs, refID) ==
    LET rs0 == [stack |-> <<[Frame(NoValue, 0) EXCEPT !.pc = "writeDump"]>>,
                out |-> <<>>,
                colorizer |-> dd.colorizer,
                env |-> env,
                referenceMap |-> EmptyMap,
                nextRefID |-> refID,
                status |-> "running",
                vs |-> vs,
                used |-> FALSE,
                stores |-> {}]
    IN  printDumpHeader(dd, cs, rs0)

\* Dumper.DumpStr run to its end
DumpStr(dd, env, cs, ord, vs, refID) ==
    RunToEnd(dd, ord, BeginDumpStr(dd, env, cs, vs, refID))

\* mutant: clone returns the receiver itself
clone_SamePointer(dd) == [dumper |-> dd, alias |-> TRUE]

\* d.clone(): a pointer to a copy of the Dumper, which does not alias the
\* receiver
clone(dd) == [dumper |-> dd, alias |-> FALSE]

\* Dumper.DumpHTML: DumpStr of a clone whose colorizer is colorizeHTML,
\* between the opening and the closing markup.  DumpStr is called from
\* DumpHTML, one more frame of the package on the call stack
DumpHTML(dd, env, cs, ord, vs, refID) ==
    LET c == clone(dd)
        htmlDumper == [c.dumper EXCEPT !.colorizer = "HTML"]
        inner == SubSeq(cs, 1, min(3, Len(cs))) \o <<CallerFrame(TRUE, FALSE, 245)>>
                   \o SubSeq(cs, 4, Len(cs))
        rs == DumpStr(htmlDumper, env, inner, ord, vs, refID)
    IN  [render |-> [rs EXCEPT !.out = <<Tok("<div><pre>", 0)>> \o @
                                         \o <<Tok("</pre></div>", 0)>>],
         \* the receiver after the call: written only through an alias
         receiver |-> IF c.alias THEN [htmlDumper EXCEPT !.colorizer = rs.colorizer]
                      ELSE dd]

---------------------------------------------------------------------------
(* DumpJSONStr.  A JSON text is modelled by the value it denotes.           *)

JNull == <<"null">>
JNum(n) == <<"number", n>>
JStr(str) == <<"string", str>>
JArray(elems) == <<"array", elems>>
\* members: a sequence of <<key, value>>
JObject(members) == <<"object", members>>

\* the result of json.Marshal: err is "" for a nil error
Encoded(j) == [json |-> j, err |-> ""]
EncodeError(msg) == [json |-> JNull, err |-> msg]

\* the positions of keys in ascending order of the keys: encoding/json
\* writes the members of a map sorted by key
RECURSIVE SortedPositions(_, _)
SortedPositions(keys, todo) ==
    IF todo = {} THEN <<>>
    ELSE LET p == CHOOSE q \in todo : \A r \in todo : keys[q] <= keys[r]
         IN  <<p>> \o SortedPositions(keys, todo \ {p})

\* json.Marshal of the value in cell c.  path holds the cells being encoded
\* around c: meeting one of them again is a cycle, which encoding/json
\* reports as an error.  Unexported struct fields are left out; a channel or
\* a function is an unsupported type.
RECURSIVE marshal(_, _)
RECURSIVE marshalFields(_, _, _)
RECURSIVE marshalElems(_, _, _)
RECURSIVE marshalMembers(_, _, _)
marshal(c, path) ==
    IF c.id # 0 /\ c.id \in path
    THEN EncodeError("json: unsupported value: encountered a cycle")
    ELSE LET inner == IF c.id # 0 THEN path \cup {c.id} ELSE path
         IN  CASE c.kind \in {"chan", "func"} -> EncodeError("json: unsupported type")
               [] c.kind = "invalid" -> Encoded(JNull)
               [] c.kind = "int" -> Encoded(JNum(c.num))
               [] c.kind = "string" -> Encoded(JStr(c.runes))
               [] c.kind \in {"ptr", "iface"} ->
                    IF c.to = 0 THEN Encoded(JNull) ELSE marshal(Heap[c.to], inner)
               [] c.kind = "struct" -> marshalFields(c.fields, inner, <<>>)
               [] c.kind \in {"slice", "array"} ->
                    IF c.kind = "slice" /\ c.to = 0 THEN Encoded(JNull)
                    ELSE marshalElems(c.elems, inner, <<>>)
               [] c.kind = "map" ->
                    IF c.to = 0 THEN Encoded(JNull)
                    ELSE marshalMembers(c, SortedPositions(c.keys, DOMAIN c.keys), <<>>)

marshalFields(fields, path, done) ==
    IF fields = <<>> THEN Encoded(JObject(done))
    ELSE IF ~Head(fields).exported THEN marshalFields(Tail(fields), path, done)
    ELSE LET e == marshal(Heap[Head(fields).slot], path)
         IN  IF e.err # "" THEN e
             ELSE marshalFields(Tail(fields), path,
                                Append(done, <<Head(fields).name, e.json>>))

marshalElems(slots, path, done) ==
    IF slots = <<>> THEN Encoded(JArray(done))
    ELSE LET e == marshal(Heap[Head(slots)], path)
         IN  IF e.err # "" THEN e
             ELSE marshalElems(Tail(slots), path, Append(done, e.json))

marshalMembers(c, positions, done) ==
    IF positions = <<>> THEN Encoded(JObject(done))
    ELSE LET p == Head(positions)
             e == marshal(Heap[c.elems[p]], {c.id} \ {0})
         IN  IF e.err # "" THEN e
             ELSE marshalMembers(c, Tail(positions), Append(done, <<c.keys[p], e.json>>))

\* json.Marshal of vs as a []any
RECURSIVE marshalArgs(_, _)
marshalArgs(vs, done) ==
    IF vs = <<>> THEN Encoded(JArray(done))
    ELSE LET e == marshal(Head(vs), {})
         IN  IF e.err # "" THEN e ELSE marshalArgs(Tail(vs), Append(done, e.json))

\* the object {"error": msg}
ErrorObject(msg) == JObject(<<(<<"error", JStr(msg)>>)>>)

\* mutant: a single argument is wrapped in an array like several
DumpJSONStr_AlwaysArray(dd, vs) ==
    IF Len(vs) = 0 THEN ErrorObject("DumpJSON called with no arguments")
    ELSE LET e == marshalArgs(vs, <<>>)
         IN  IF e.err # "" THEN ErrorObject(e.err) ELSE e.json

\* Dumper.DumpJSONStr
DumpJSONStr(dd, vs) ==
    IF Len(vs) = 0 THEN ErrorObject("DumpJSON called with no arguments")
    ELSE LET e == IF Len(vs) = 1 THEN marshal(vs[1], {}) ELSE marshalArgs(vs, <<>>)
         IN  IF e.err # "" THEN ErrorObject(e.err) ELSE e.json

---------------------------------------------------------------------------
(* Inputs.                                                                 *)

\* the argument of a With... option
OptVals == {-1, 0, 1, 2}

Options ==
    [opt : {"WithMaxDepth", "WithMaxItems", "WithMaxStringLen", "WithSkipStackFrames"},
     n : OptVals]

SeqsUpTo(S, n) == UNION {[1 .. k -> S] : k \in 0 .. n}

One(S) == {<<a>> : a \in S}

\* NewDumper() and NewDumper(o) for every option o
OptionLists == {<<>>} \cup One(Options)

\* NewDumper(opts...) for every list of up to MaxOpts options
OptionSeqs == SeqsUpTo({o \in Options : o.n # 1}, MaxOpts)

\* call stacks: a call of d.DumpStr from user code at line 10, and a call
\* through so many wrappers of the package that no frame is found
UserCall ==
    <<CallerFrame(TRUE, FALSE, 311), CallerFrame(TRUE, FALSE, 292),
      CallerFrame(TRUE, FALSE, 199), CallerFrame(FALSE, FALSE, 10),
      CallerFrame(FALSE, FALSE, 20)>>
WrappedCall == [i \in 1 .. defaultMaxStackDepth |-> CallerFrame(TRUE, FALSE, i)]

\* call stacks of 0, 2, 4 and up to MaxFrames frames, frame i at line
\* 100 + i: the
\* frames at the positions U are outside the package, the others inside;
\* with test set, the first of U is a function of the package in a file
\* that ends in _test.go
StackOf(n, U, test) ==
    [k \in 1 .. n |->
        IF k - 1 \notin U THEN CallerFrame(TRUE, FALSE, 100 + k - 1)
        ELSE IF test /\ \A u \in U : k - 1 <= u THEN CallerFrame(TRUE, TRUE, 100 + k - 1)
        ELSE CallerFrame(FALSE, FALSE, 100 + k - 1)]
CallStacks ==
    {StackOf(n, {u1, u2}, test) :
        n \in {0, 2, 4, MaxFrames - 1, MaxFrames},
        u1 \in 0 .. MaxFrames, u2 \in 0 .. MaxFrames, test \in BOOLEAN}
\* NewDumper() and NewDumper(WithSkipStackFrames(n))
SkipOptionLists == {<<>>} \cup {<<[opt |-> "WithSkipStackFrames", n |-> n]>> : n \in OptVals}

\* the orders in which the runtime may give the keys of a map
MapOrders == {p \in [1 .. MaxLen -> 1 .. MaxLen] : \A i, j \in 1 .. MaxLen : p[i] = p[j] => i = j}
Identity == [i \in 1 .. MaxLen |-> i]

\* the order matters only to a map of several keys; among the inputs these
\* are top-level arguments
Orders(vs) ==
    IF \E i \in 1 .. Len(vs) : vs[i].kind = "map" /\ Len(vs[i].keys) > 1
    THEN MapOrders
    ELSE {Identity}

IntSlots(n) == [i \in 1 .. n |-> IntSlot(i)]
Keys(n) == [i \in 1 .. n |-> i]

GraphArgs == {Heap[a] : a \in {3, 4, 6, 7, 13, 14, 15, 18, 20, 25, 29, 31}}
                \cup {MapCell(0, Keys(2), IntSlots(2)), Cell(0, "invalid")}
\* root := &Node{...}: the chain from node k on, MaxChain - k + 1 nodes
ChainArg(k) == PtrCell(0, ChainNode(k))
ChainArgs == {ChainArg(k) : k \in 1 .. MaxChain}
CollectionArgs ==
    UNION {{SliceCell(0, IntSlots(n)), ArrayCell(0, IntSlots(n)),
            MapCell(0, Keys(n), IntSlots(n))} : n \in 0 .. MaxLen}
StringArgs == {StringCell(0, s) : s \in SeqsUpTo(Runes, MaxStrLen)}
\* the arguments of DumpJSONStr: an int, a string, a slice, a map, a struct
\* with two pointers to one value, a struct with an unexported field, a
\* self-referencing pointer, a nil interface, a nil pointer, make(chan int)
JSONArgs ==
    {Heap[24], StringCell(0, <<97>>), SliceCell(0, IntSlots(2)),
     MapCell(0, <<2, 1>>, IntSlots(2)), Heap[20], Heap[15], Heap[3], Heap[104],
     Heap[101], [Cell(0, "chan") EXCEPT !.to = 1]}
\* DumpJSONStr(), DumpJSONStr(a), DumpJSONStr(a, b)
JSONArgLists == {<<>>} \cup One(JSONArgs) \cup {<<a, b>> : a, b \in JSONArgs}
\* byte slices and arrays, directly, in a struct, in a map value, in a
\* slice and behind a pointer
ByteArgs == {Heap[a] : a \in {301, 302, 303, 304, 305, 306, 307, 309, 310, 311, 312}}
\* the arguments rendered as HTML: map[string]string{"foo": "bar"}, a
\* struct, a struct of two pointers to one value, a pointer, an int, and
\* a nil interface
HTMLArgs ==
    {MapCell(0, <<1>>, <<108>>), Heap[15], Heap[20], Heap[3], Heap[24],
     Cell(0, "invalid")}
\* structs, directly, behind a pointer, as a map value, in a slice
StructArgs == {Heap[a] : a \in {115, 501, 503, 505, 506, 507, 508, 509}}
\* x := &X{V: 7}; n := &Node{}; n.Next = n: calls with two arguments
\* among D{A: x, B: x}, x, Holder{N: n}, n and W{I: T{...}}
SharingArgs == {Heap[20], PtrCell(0, 23), Heap[4], Heap[3], Heap[18]}
ArgPairs == {<<a, b>> : a, b \in SharingArgs}
\* the byte slices given to the hex-dump formatter: n consecutive byte
\* values from a first one on, wrapping at 256; control characters, the
\* printable range and its two ends, and bytes above 0x7e are among them
ByteStarts == {0, 30, 120, 250}
HexInputs ==
    {[b |-> Ramp(from, n), cap |-> n + extra] :
        from \in ByteStarts, n \in 0 .. MaxBytes, extra \in {0, 8}}
NilArgs == {Heap[a] : a \in (101 .. 106) \cup {110, 111, 112, 113, 114, 116, 117, 118,
                                               119, 120, 121, 122}}

---------------------------------------------------------------------------
(* HTTPDebugTransport (src/http_dumper.go).                                *)

\* an error is the chain of its messages, the outermost first; nil is the
\* empty chain
NilErr == <<>>

\* mutant: the context is there, the cause is not wrapped
Errorf_NoWrap(context, err) == <<context>>

\* mutant: the cause is handed on without the context
Errorf_NoContext(context, err) == err

\* fmt.Errorf(context + ": %w", err)
Errorf(context, err) == <<context>> \o err

\* errors.Is(err, target): target is err or something err wraps
ErrorsIs(err, target) ==
    \E i \in 1 .. Len(err) : SubSeq(err, i, Len(err)) = target

\* a line of a raw HTTP dump: "key: text" when key is not empty, else text
Line(key, text) == [key |-> key, text |-> text]

\* what httputil.DumpRequestOut(req, true) returns
DumpRequestOut(req) ==
    IF req.malformed
    THEN [raw |-> <<>>, err |-> <<"unsupported protocol scheme">>]
    ELSE [raw |-> <<Line("", "GET / HTTP/1.1"), Line("Host", "example.invalid"),
                    Line("", "")>>,
          err |-> NilErr]

\* what httputil.DumpResponse(resp, true) returns
DumpResponse(resp) ==
    IF ~resp.readable
    THEN [raw |-> <<>>, err |-> <<"simulated body read failure">>]
    ELSE [raw |-> <<Line("", "HTTP/1.1 200 OK"), Line("X-Test-Header", "TestValue"),
                    Line("", "")>> \o resp.body,
          err |-> NilErr]

\* strings.TrimSpace of the body: no blank lines at its ends
RECURSIVE TrimSpace(_)
TrimSpace(b) ==
    IF b = <<>> THEN b
    ELSE IF Head(b) = "" THEN TrimSpace(Tail(b))
    ELSE IF b[Len(b)] = "" THEN TrimSpace(SubSeq(b, 1, Len(b) - 1))
    ELSE b

\* the loop of parseHTTPDump over the lines after the first
RECURSIVE parseLines(_, _, _, _)
parseLines(lines, inBody, headers, body) ==
    IF lines = <<>> THEN [headers |-> headers, body |-> body]
    ELSE LET line == Head(lines)
         IN  IF inBody
             THEN parseLines(Tail(lines), TRUE, headers,
                             Append(body, IF line.key = "" THEN line.text
                                          ELSE line.key))
             ELSE IF line.key = "" /\ line.text = ""
             THEN parseLines(Tail(lines), TRUE, headers, body)
             ELSE IF line.key # ""
             THEN parseLines(Tail(lines), FALSE, (line.key :> line.text) @@ headers, body)
             ELSE parseLines(Tail(lines), FALSE, headers, body)

\* parseHTTPDump: the first line, the headers by key, the trimmed body
parseHTTPDump(label, raw) ==
    LET first == (IF label = "Request" THEN "Request-Line" ELSE "Status")
                    :> <<raw[1].text>>
        rest == parseLines(Tail(raw), FALSE, EmptyMap, <<>>)
        hdrs == [k \in DOMAIN rest.headers |-> <<rest.headers[k]>>] @@ first
        body == TrimSpace(rest.body)
    IN  IF body # <<>> THEN ("Body" :> body) @@ hdrs ELSE hdrs

NilResp == [id |-> 0, readable |-> TRUE, body |-> <<>>]

\* RoundTrip as far as its return: the response and the error returned,
\* the values handed to t.dumper.Dump, and the calls of the inner
\* transport, whose RoundTrip returns inner
\* mutant: the request is sent before it is captured
RoundTrip_InnerFirst(t, req, inner) ==
    IF inner.err # NilErr
    THEN [resp |-> NilResp,
          err |-> Errorf("HTTPDebugTransport: round trip failed", inner.err),
          dumped |-> <<>>, innerCalls |-> 1]
    ELSE IF t.debugEnabled /\ DumpRequestOut(req).err # NilErr
    THEN [resp |-> NilResp,
          err |-> Errorf("HTTPDebugTransport: failed to dump request",
                         DumpRequestOut(req).err),
          dumped |-> <<>>, innerCalls |-> 1]
    ELSE [resp |-> inner.resp, err |-> NilErr, dumped |-> <<>>, innerCalls |-> 1]

RoundTrip(t, req, inner) ==
    IF ~t.debugEnabled
    THEN [resp |-> inner.resp,
          err |-> IF inner.err # NilErr
                  THEN Errorf("HTTPDebugTransport: pass-through round trip failed", inner.err)
                  ELSE NilErr,
          dumped |-> <<>>, innerCalls |-> 1]
    ELSE LET rq == DumpRequestOut(req)
             rs == DumpResponse(inner.resp)
         IN  IF rq.err # NilErr
             THEN [resp |-> NilResp,
                   err |-> Errorf("HTTPDebugTransport: failed to dump request", rq.err),
                   dumped |-> <<>>, innerCalls |-> 0]
             ELSE IF inner.err # NilErr
             THEN [resp |-> NilResp,
                   err |-> Errorf("HTTPDebugTransport: round trip failed", inner.err),
                   dumped |-> <<>>, innerCalls |-> 1]
             ELSE IF rs.err # NilErr
             THEN [resp |-> inner.resp, err |-> NilErr, dumped |-> <<>>, innerCalls |-> 1]
             ELSE [resp |-> inner.resp, err |-> NilErr,
                   dumped |-> <<[Transaction |->
                                  [Request |-> parseHTTPDump("Request", rq.raw),
                                   Response |-> parseHTTPDump("Response", rs.raw),
                                   Duration |-> "duration"]]>>,
                   innerCalls |-> 1]

\* no RoundTrip call yet
NoRoundTrip ==
    [op |-> "none", req |-> [malformed |-> FALSE],
     inner |-> [resp |-> NilResp, err |-> NilErr],
     resp |-> NilResp, err |-> NilErr, dumped |-> <<>>, innerCalls |-> 0, before |-> 0]

\* NewHTTPDebugTransport(inner), HTTP_DEBUG set or not.  sink is what the
\* Dumper's writer has received; env, set and ret are history: HTTP_DEBUG at
\* construction, the argument of the latest SetDebug, and the latest
\* RoundTrip made since
NewHTTPDebugTransport(httpDebug) ==
    [made |-> TRUE,
     debugEnabled |-> httpDebug,
     dumper |-> NewDumper(<<[opt |-> "WithSkipStackFrames", n |-> 4]>>),
     sink |-> <<>>,
     env |-> httpDebug,
     set |-> <<>>,
     ret |-> NoRoundTrip]

NoTransport == [NewHTTPDebugTransport(FALSE) EXCEPT !.made = FALSE]

\* the requests, the responses and the inner transport's results
Requests == [malformed : BOOLEAN]
OkResp == [id |-> 1, readable |-> TRUE, body |-> <<Line("", "{\"success\":true}")>>]
EmptyResp == [id |-> 2, readable |-> TRUE, body |-> <<>>]
ErrorBodyResp == [id |-> 3, readable |-> FALSE, body |-> <<>>]
ErrSimulatedNetwork == <<"simulated network error">>
InnerResults ==
    {[resp |-> r, err |-> NilErr] : r \in {OkResp, EmptyResp, ErrorBodyResp}}
        \cup {[resp |-> NilResp, err |-> ErrSimulatedNetwork],
              [resp |-> OkResp, err |-> ErrSimulatedNetwork]}

\* tp = NewHTTPDebugTransport(inner)
CallNewHTTPDebugTransport ==
    \E httpDebug \in BOOLEAN :
        /\ tp' = NewHTTPDebugTransport(httpDebug)
        /\ UNCHANGED <<d, built, noColor, nextRefID, referenceMap, last, prev, run>>

\* tp.SetDebug(enabled)
CallSetDebug ==
    \E enabled \in BOOLEAN :
        /\ tp.made
        /\ tp' = [tp EXCEPT !.debugEnabled = enabled, !.set = <<enabled>>,
                            !.ret = NoRoundTrip]
        /\ UNCHANGED <<d, built, noColor, nextRefID, referenceMap, last, prev, run>>

\* tp.RoundTrip(req), the inner transport returning inner.  t.dumper.Dump
\* writes the render of the transaction to the sink; the render resets the
\* reference table and chooses the Dumper's colorizer
CallRoundTrip ==
    /\ tp.made
    /\ Len(tp.sink) < MaxSink
    /\ \E req \in Requests, inner \in InnerResults :
        \E r \in {RoundTrip(tp, req, inner)} :
          /\ tp' = [tp EXCEPT
                      !.sink = @ \o r.dumped,
                      !.dumper.colorizer = IF r.dumped # <<>> /\ @ = "nil"
                                           THEN newColorizer(noColor) ELSE @,
                      !.ret = [op |-> "RoundTrip", req |-> req, inner |-> inner,
                               resp |-> r.resp, err |-> r.err, dumped |-> r.dumped,
                               innerCalls |-> r.innerCalls, before |-> Len(tp.sink)]]
          /\ referenceMap' = IF r.dumped # <<>> THEN EmptyMap ELSE referenceMap
          /\ UNCHANGED <<d, built, noColor, nextRefID, last, prev, run>>

---------------------------------------------------------------------------
(* The program.                                                            *)

Policy(dd) == [dd EXCEPT !.colorizer = "nil"]

NoCall ==
    [op |-> "none", vs |-> <<>>, cs |-> <<>>, policy |-> Policy(NewDumper(<<>>)),
     out |-> <<>>, status |-> "none", style |-> "nil", start |-> 0,
     refs |-> EmptyMap, frame |-> NoFrame, indent |-> 0, markup |-> "none",
     stores |-> {}]

Init ==
    /\ d = NewDumper(<<>>)
    /\ built = <<>>
    /\ noColor = FALSE
    /\ nextRefID = 1
    /\ referenceMap = EmptyMap
    /\ last = NoCall
    /\ prev = NoCall
    /\ run = <<>>
    /\ tp = NoTransport

\* the program has not died of a stack overflow
Alive == last.status # "stack overflow"

\* d = NewDumper(opts...): the Dumper used from now on; the history of
\* calls starts again
CallNewDumper ==
    \E opts \in OptionLists :
        /\ Alive
        /\ d' = NewDumper(opts)
        /\ built' = opts
        /\ last' = NoCall
        /\ prev' = NoCall
        /\ UNCHANGED <<noColor, nextRefID, referenceMap, run, tp>>

\* d = NewDumper(opts...) with several options
CallNewDumperWith(Lists) ==
    \E opts \in Lists :
        /\ Alive
        /\ d' = NewDumper(opts)
        /\ built' = opts
        /\ last' = NoCall
        /\ prev' = NoCall
        /\ UNCHANGED <<noColor, nextRefID, referenceMap, run, tp>>

\* d.DumpStr(vs...) with vs from Vs, called from a call site of Cs, the
\* runtime giving map keys in order ord.  prev keeps the call before when
\* it was this same call.
CallDumpStr(Vs, Cs) ==
    /\ Alive
    /\ nextRefID <= MaxRefID
    /\ \E vs \in Vs, cs \in Cs :
         \E ord \in Orders(vs) :
          \E rs \in {DumpStr(d, noColor, cs, ord, vs, nextRefID)} :
            LET call == [op |-> "DumpStr", vs |-> vs, cs |-> cs, policy |-> Policy(d),
                         out |-> rs.out, status |-> rs.status, style |-> rs.colorizer,
                         start |-> nextRefID, refs |-> rs.referenceMap,
                         frame |-> findFirstNonInternalFrame(cs, d.skippedStackFrames),
                         indent |-> 0,
                         markup |-> IF rs.used THEN rs.colorizer ELSE "none",
                         stores |-> rs.stores]
            IN  /\ d' = [d EXCEPT !.colorizer = rs.colorizer]
                /\ nextRefID' = rs.nextRefID
                /\ referenceMap' = rs.referenceMap
                /\ last' = call
                /\ prev' = IF last.op = call.op /\ last.vs = vs /\ last.cs = cs
                              /\ last.policy = call.policy
                           THEN last
                           ELSE NoCall
                /\ UNCHANGED <<built, noColor, run, tp>>

\* d.DumpHTML(vs...)
CallDumpHTML(Vs, Cs) ==
    /\ Alive
    /\ nextRefID <= MaxRefID
    /\ \E vs \in Vs, cs \in Cs :
         \E ord \in Orders(vs) :
          \E r \in {DumpHTML(d, noColor, cs, ord, vs, nextRefID)} :
          \E rs \in {r.render} :
            /\ d' = r.receiver
            /\ nextRefID' = rs.nextRefID
            /\ referenceMap' = rs.referenceMap
            /\ last' = [NoCall EXCEPT !.op = "DumpHTML", !.vs = vs, !.cs = cs,
                                      !.policy = Policy(d), !.out = rs.out,
                                      !.status = rs.status, !.style = rs.colorizer,
                                      !.start = nextRefID, !.refs = rs.referenceMap,
                                      !.markup = IF rs.used THEN rs.colorizer ELSE "none",
                                      !.stores = rs.stores]
            /\ prev' = last
            /\ UNCHANGED <<built, noColor, run, tp>>

\* d.DumpJSONStr(vs...)
CallDumpJSONStr(Vs) ==
    /\ Alive
    /\ \E vs \in Vs :
         /\ last' = [NoCall EXCEPT !.op = "DumpJSONStr", !.vs = vs,
                                   !.policy = Policy(d),
                                   !.out = DumpJSONStr(d, vs), !.status = "done"]
         /\ prev' = NoCall
         /\ UNCHANGED <<d, built, noColor, nextRefID, referenceMap, run, tp>>

\* d.printDumpHeader(out), called with the call stack cs
CallPrintDumpHeader(Cs) ==
    /\ Alive
    /\ \E cs \in Cs :
        \E rs \in {printDumpHeader(d, cs, BeginDumpStr(d, noColor, <<>>, <<>>, nextRefID))} :
         /\ d' = [d EXCEPT !.colorizer = rs.colorizer]
         /\ last' = [NoCall EXCEPT !.op = "printDumpHeader", !.cs = cs,
                                   !.policy = Policy(d), !.out = rs.out,
                                   !.status = "done", !.style = rs.colorizer,
                                   !.frame = findFirstNonInternalFrame(cs, d.skippedStackFrames)]
         /\ prev' = NoCall
         /\ UNCHANGED <<built, noColor, nextRefID, referenceMap, run, tp>>

\* d.formatByteSliceAsHexDump(b, indent), as printValue at depth
\* indent - 1 calls it
CallFormatByteSliceAsHexDump ==
    /\ Alive
    /\ \E b \in HexInputs, indent \in 1 .. 2 :
         /\ last' = [NoCall EXCEPT !.op = "formatByteSliceAsHexDump",
                                   !.vs = <<b>>, !.indent = indent,
                                   !.policy = Policy(d),
                                   !.out = <<HexTok(formatByteSliceAsHexDump(b, indent))>>,
                                   !.status = "done"]
         \* d.colorize chooses the colorizer when a body line is written
         /\ d' = IF Len(b.b) > 0 /\ d.colorizer = "nil"
                 THEN [d EXCEPT !.colorizer = newColorizer(noColor)]
                 ELSE d
         /\ prev' = NoCall
         /\ UNCHANGED <<built, noColor, nextRefID, referenceMap, run, tp>>

\* renders of the value graphs
Next ==
    \/ CallNewDumper
    \/ CallDumpStr(One(GraphArgs), {UserCall})

Spec == Init /\ [][Next]_vars

\* renders of linked chains
NextChain ==
    \/ CallNewDumper
    \/ CallDumpStr(One(ChainArgs), {UserCall})

SpecChain == Init /\ [][NextChain]_vars

\* renders of slices, arrays and maps
NextColl ==
    \/ CallNewDumper
    \/ CallDumpStr(One(CollectionArgs), {UserCall})

SpecColl == Init /\ [][NextColl]_vars

\* renders of strings
NextStr ==
    \/ CallNewDumper
    \/ CallDumpStr(One(StringArgs), {UserCall})

SpecStr == Init /\ [][NextStr]_vars

\* Dumpers built from lists of options
NextOpts == CallNewDumperWith(OptionSeqs)

SpecOpts == Init /\ [][NextOpts]_vars

\* renders of nil values and of values with a String method
NextNil ==
    \/ CallNewDumper
    \/ CallDumpStr(One(NilArgs), {UserCall})

SpecNil == Init /\ [][NextNil]_vars

\* JSON dumps
NextJSON == CallDumpJSONStr(JSONArgLists)

SpecJSON == Init /\ [][NextJSON]_vars

\* dump headers
NextHeader ==
    \/ CallNewDumperWith(SkipOptionLists)
    \/ CallPrintDumpHeader(CallStacks)

SpecHeader == Init /\ [][NextHeader]_vars

\* renders of slices and arrays of bytes
NextBytes ==
    \/ CallNewDumper
    \/ CallDumpStr(One(ByteArgs), {UserCall})

SpecBytes == Init /\ [][NextBytes]_vars

\* hex dumps
NextHex == CallFormatByteSliceAsHexDump

SpecHex == Init /\ [][NextHex]_vars

\* renders as text and as HTML
NextHTML ==
    \/ CallNewDumper
    \/ CallDumpStr(One(HTMLArgs), {UserCall})
    \/ CallDumpHTML(One(HTMLArgs), {UserCall})

SpecHTML == Init /\ [][NextHTML]_vars

\* renders of structs
NextStruct ==
    \/ CallNewDumper
    \/ CallDumpStr(One(StructArgs), {UserCall})

SpecStruct == Init /\ [][NextStruct]_vars

\* renders of two arguments
NextPairs ==
    \/ CallNewDumper
    \/ CallDumpStr(ArgPairs, {UserCall})

SpecPairs == Init /\ [][NextPairs]_vars

\* an HTTPDebugTransport in use
NextHTTP ==
    \/ CallNewHTTPDebugTransport
    \/ CallSetDebug
    \/ CallRoundTrip

SpecHTTP == Init /\ [][NextHTTP]_vars

---------------------------------------------------------------------------
(* Two goroutines, each calling d.DumpStr once, step by step.  The package *)
(* variables are shared; the code takes no lock.                           *)

Procs == {1, 2}

NoRender ==
    [stack |-> <<>>, out |-> <<>>, colorizer |-> "nil", env |-> FALSE,
     referenceMap |-> EmptyMap, nextRefID |-> 0, status |-> "none", vs |-> <<>>,
     used |-> FALSE, stores |-> {}]

IdleRun == [state |-> "idle", rs |-> NoRender, start |-> 0]

\* a goroutine's render without the package variables, and with them
Local(rs) == [rs EXCEPT !.referenceMap = EmptyMap, !.nextRefID = 0]
Global(rs) == [rs EXCEPT !.referenceMap = referenceMap, !.nextRefID = nextRefID,
                         !.colorizer = d.colorizer]

ConcArgs == {Heap[3], Heap[13], Heap[20]}

InitConc ==
    /\ d = NewDumper(<<>>)
    /\ built = <<>>
    /\ noColor = FALSE
    /\ nextRefID = 1
    /\ referenceMap = EmptyMap
    /\ last = NoCall
    /\ prev = NoCall
    /\ run = [g \in Procs |-> IdleRun]
    /\ tp = NoTransport

\* the goroutine's next step is the cycle check of printValue, which reads
\* and may write the reference table
AtCycleCheck(g) ==
    /\ run[g].state = "running"
    /\ LET f == Top(run[g].rs)
       IN  /\ f.pc = "printValue"
           /\ ~DepthExceeded(d, f.indent)
           /\ IsValid(f.v)
           /\ asStringer(f.v) = NoTok
           /\ Kind(f.v) = "ptr"
           /\ ~isNil(f.v)
           /\ CanAddr(f.v)

\* goroutine g enters DumpStr: the header, and writeDump's reset of the
\* reference table
ConcBegin(g) ==
    /\ run[g].state = "idle"
    /\ \E vs \in One(ConcArgs) :
        \E rs \in {BeginDumpStr(d, noColor, UserCall, vs, nextRefID)} :
          /\ referenceMap' = EmptyMap
          /\ d' = [d EXCEPT !.colorizer = rs.colorizer]
          /\ run' = [run EXCEPT ![g] = [state |-> "running", rs |-> Local(rs),
                                        start |-> nextRefID]]
          /\ UNCHANGED <<built, noColor, nextRefID, last, prev, tp>>

\* goroutine g takes the next step of its render
ConcStep(g) ==
    /\ run[g].state = "running"
    /\ \E rs \in {Step(d, Identity, Global(run[g].rs))} :
          /\ referenceMap' = rs.referenceMap
          /\ nextRefID' = rs.nextRefID
          /\ d' = [d EXCEPT !.colorizer = rs.colorizer]
          /\ run' = [run EXCEPT ![g].rs = Local(rs),
                                ![g].state = IF rs.status = "running"
                                             THEN "running" ELSE "returned"]
          /\ UNCHANGED <<built, noColor, last, prev, tp>>

\* both goroutines are at the reference table at once: the unsynchronized
\* map access may also end the program ("fatal error: concurrent map
\* writes")
ConcMapRace ==
    /\ \A g \in Procs : AtCycleCheck(g)
    /\ run' = [g \in Procs |-> [run[g] EXCEPT !.state = "returned",
                                              !.rs.status = "fatal"]]
    /\ UNCHANGED <<d, built, noColor, nextRefID, referenceMap, last, prev, tp>>

NextConc ==
    \/ \E g \in Procs : ConcBegin(g)
    \/ \E g \in Procs : ConcStep(g)
    \/ ConcMapRace

SpecConc == InitConc /\ [][NextConc]_vars

---------------------------------------------------------------------------
(* One goroutine's render of two arguments, a step of printValue at a      *)
(* time: run[1] is the render in progress.                                 *)

InitSteps ==
    /\ d = NewDumper(<<>>)
    /\ built = <<>>
    /\ noColor = FALSE
    /\ nextRefID = 1
    /\ referenceMap = EmptyMap
    /\ last = NoCall
    /\ prev = NoCall
    /\ run = <<IdleRun>>
    /\ tp = NoTransport

\* d.DumpStr(vs...) is entered: the header, and writeDump's reset of the
\* reference table
EnterDumpStr(Vs) ==
    /\ run[1].state # "running"
    /\ nextRefID <= MaxRefID
    /\ \E vs \in Vs :
        \E rs \in {BeginDumpStr(d, noColor, UserCall, vs, nextRefID)} :
          /\ referenceMap' = EmptyMap
          /\ d' = [d EXCEPT !.colorizer = rs.colorizer]
          /\ run' = <<[state |-> "running", rs |-> Local(rs), start |-> nextRefID]>>
          /\ UNCHANGED <<built, noColor, nextRefID, last, prev, tp>>

\* the next step of the render
StepDumpStr ==
    /\ run[1].state = "running"
    /\ \E rs \in {Step(d, Identity, Global(run[1].rs))} :
          /\ referenceMap' = rs.referenceMap
          /\ nextRefID' = rs.nextRefID
          /\ d' = [d EXCEPT !.colorizer = rs.colorizer]
          /\ run' = [run EXCEPT ![1].rs = Local(rs),
                                ![1].state = IF rs.status = "running"
                                             THEN "running" ELSE "returned"]
          /\ UNCHANGED <<built, noColor, last, prev, tp>>

NextSteps ==
    \/ EnterDumpStr(ArgPairs)
    \/ StepDumpStr

SpecSteps == InitSteps /\ [][NextSteps]_vars

---------------------------------------------------------------------------
(* Reading the output of a call.                                           *)

\* the positions of out that hold a token of role t
Positions(out, t) == {i \in 1 .. Len(out) : out[i].t = t}

\* the number of tokens of role t, and of those with number n
Count(out, t) == Cardinality(Positions(out, t))
CountN(out, t, n) == Cardinality({i \in Positions(out, t) : out[i].n = n})

\* the cells a cell refers to
Children(c) ==
    CASE c.kind \in {"ptr", "iface"} -> {c.to} \ {0}
      [] c.kind = "struct" -> {c.fields[i].slot : i \in 1 .. Len(c.fields)}
      [] c.kind \in {"map", "slice", "array"} -> {c.elems[i] : i \in 1 .. Len(c.elems)}
      [] OTHER -> {}

RECURSIVE ReachFrom(_)
ReachFrom(S) ==
    LET T == S \cup UNION {Children(Heap[x]) : x \in S}
    IN  IF T = S THEN S ELSE ReachFrom(T)

\* no cell reachable from c reaches itself
Acyclic(c) == \A x \in ReachFrom(Children(c)) : x \notin ReachFrom(Children(Heap[x]))

\* the last call is a completed DumpStr(v)
Rendered(v) == last.op = "DumpStr" /\ last.status = "done" /\ last.vs = <<v>>

---------------------------------------------------------------------------
(* C1: a value with a self-referencing pointer (n.Next == n), handed in    *)
(* as a struct field or directly as a top-level pointer, is rendered with  *)
(* exactly one expansion of the node and exactly one back-reference        *)
(* marker, when the depth limit lets the render reach the reference.       *)
C1_SelfRefExpandedOnce ==
    \A v \in {Heap[3], Heap[4]} :
        Rendered(v) /\ last.policy.maxDepth >= 2
            => CountN(last.out, "struct", 1) = 1 /\ Count(last.out, "ref") = 1

(* C2: every render call terminates: no cycle of the value graph makes     *)
(* printValue recurse until the stack overflows.                           *)
C2_RenderTerminates == last.status # "stack overflow"

(* C3: rendering never panics on unreadable data.                          *)
C3_NeverPanics == last.status # "panic"

(* C4: every render call starts with the id counter at 1: the first        *)
(* address registered in the call gets id 1.                               *)
C4_IdsRestart ==
    last.op = "DumpStr"
        => /\ last.start = 1
           /\ last.refs # EmptyMap => \E a \in DOMAIN last.refs : last.refs[a] = 1

(* C5: two render calls of the same acyclic value with the same Dumper     *)
(* configuration return identical output.                                  *)
C5_RenderIsPure ==
    /\ prev.op = "DumpStr" /\ prev.status = "done" /\ last.status = "done"
    /\ Acyclic(last.vs[1])
    => prev.out = last.out

---------------------------------------------------------------------------
Min(a, b) == IF a < b THEN a ELSE b

(* C7: a chain of N nodes linked through pointer fields, rendered with max *)
(* depth D < N (the root node at depth 0): the output has the "max depth"  *)
(* marker, once; each node at depth <= D is rendered, once, with its field *)
(* line; no node at depth > D is rendered, and neither is the nil that     *)
(* ends the chain.                                                         *)
C7_DepthLimitExact ==
    \A k \in 1 .. MaxChain :
        LET N == MaxChain - k + 1
            D == last.policy.maxDepth
        IN  Rendered(ChainArg(k)) /\ D < N
            => /\ Count(last.out, "max depth") = 1
               /\ \A j \in 0 .. N - 1 :
                     CountN(last.out, "struct", ChainNode(k + j)) = IF j <= D THEN 1 ELSE 0
               /\ Count(last.out, "+") = D + 1
               /\ Count(last.out, "nil") = 0

\* the chain of the test: four nodes, WithMaxDepth(2)
C7_Witness ==
    /\ Rendered(ChainArg(MaxChain - 3))
    /\ last.policy.maxDepth = 2
    /\ CountN(last.out, "struct", ChainNode(MaxChain - 1)) = 1
    /\ CountN(last.out, "struct", ChainNode(MaxChain)) = 0

(* C8: a slice, array or map of S elements rendered with max items M has   *)
(* exactly min(S, M) entries, each followed by its value; it has the       *)
(* "truncated" marker, once, exactly when S > M; no value past the M-th    *)
(* entry is rendered.                                                      *)
C8_ItemLimitExact ==
    \A S \in 0 .. MaxLen :
      \A c \in {SliceCell(0, IntSlots(S)), ArrayCell(0, IntSlots(S)),
                MapCell(0, Keys(S), IntSlots(S))} :
        LET M == last.policy.maxItems
            out == last.out
            entries == Positions(out, "index") \cup Positions(out, "key")
        IN  Rendered(c)
            => /\ Cardinality(entries) = Min(S, M)
               /\ Count(out, "truncated") = IF S > M THEN 1 ELSE 0
               /\ Count(out, "int") + Count(out, "max depth") = Min(S, M)
               /\ \A p \in entries : out[p + 1].t \in {"int", "max depth"}
               /\ \A p \in entries :
                     out[p + 1].t = "int" =>
                        out[p + 1].n = IF out[p].t = "key" THEN out[p].n ELSE out[p].n + 1
               /\ c.kind # "map" => \A p \in entries : out[p].n < M
               /\ \A p, q \in entries : out[p].n = out[q].n => p = q

\* three elements, WithMaxItems(2): two entries and the marker
C8_Witness ==
    /\ Rendered(MapCell(0, Keys(3), IntSlots(3)))
    /\ last.policy.maxItems = 2
    /\ Count(last.out, "key") = 2
    /\ Count(last.out, "truncated") = 1

C10_NegativeDisablesDepth ==
    \A k \in 1 .. MaxChain :
        Rendered(ChainArg(k)) /\ built = <<[opt |-> "WithMaxDepth", n |-> -1]>>
            => Count(last.out, "max depth") = 0

(* C10, amended: WithMaxDepth(-1) is ignored and the default max depth of  *)
(* 15 stays: the Dumper renders a chain of N nodes without the marker when *)
(* N <= 15 and with the marker when N > 15.                                *)
C10_NegativeDepthIgnored ==
    built = <<[opt |-> "WithMaxDepth", n |-> -1]>>
        => /\ d.maxDepth = defaultMaxDepth
           /\ \A k \in 1 .. MaxChain :
                 Rendered(ChainArg(k))
                    => Count(last.out, "max depth")
                         = IF MaxChain - k + 1 > defaultMaxDepth THEN 1 ELSE 0

\* a chain of 16 nodes under WithMaxDepth(-1): the marker is there
C10_Witness ==
    /\ built = <<[opt |-> "WithMaxDepth", n |-> -1]>>
    /\ Rendered(ChainArg(MaxChain - defaultMaxDepth))
    /\ Count(last.out, "max depth") = 1

---------------------------------------------------------------------------
\* the output with the ids of the back-references left out
Shape(out) == [i \in 1 .. Len(out) |-> IF out[i].t = "ref" THEN Tok("ref", 0) ELSE out[i]]

\* what DumpStr(vs...) returns when no other call runs
Alone(vs, start) == DumpStr(NewDumper(<<>>), noColor, UserCall, Identity, vs, start).out

(* C6: two concurrent render calls share no reference table: whatever the  *)
(* interleaving, an address registered by one call is never found and      *)
(* never cleared by the other, so each call returns what it returns alone  *)
(* (up to the numbers of its back-references).                             *)
C6_ConcurrentCallsIsolated ==
    \A g \in DOMAIN run :
        run[g].state = "returned" /\ run[g].rs.status = "done"
            => Shape(run[g].rs.out) = Shape(Alone(run[g].rs.vs, run[g].start))

---------------------------------------------------------------------------
\* the last value >= 0 given for option name in opts, else def
RECURSIVE LastGiven(_, _, _)
LastGiven(opts, name, def) ==
    IF opts = <<>> THEN def
    ELSE LET o == opts[Len(opts)]
         IN  IF o.opt = name /\ o.n >= 0
             THEN o.n
             ELSE LastGiven(SubSeq(opts, 1, Len(opts) - 1), name, def)

(* C11: an option with n < 0 is ignored and changes nothing: after         *)
(* NewDumper(opts...) each field is the last non-negative value given for  *)
(* it, or its default (15 / 100 / 100000 / 0) when none was given, and is  *)
(* never negative.                                                         *)
C11_OutOfRangeIgnored ==
    /\ d.maxDepth = LastGiven(built, "WithMaxDepth", 15)
    /\ d.maxItems = LastGiven(built, "WithMaxItems", 100)
    /\ d.maxStringLen = LastGiven(built, "WithMaxStringLen", 100000)
    /\ d.skippedStackFrames = LastGiven(built, "WithSkipStackFrames", 0)
    /\ d.maxDepth >= 0 /\ d.maxItems >= 0
    /\ d.maxStringLen >= 0 /\ d.skippedStackFrames >= 0

\* NewDumper(WithMaxItems(2), WithMaxItems(-1)): the limit stays 2
C11_Witness ==
    /\ built = <<[opt |-> "WithMaxItems", n |-> 2], [opt |-> "WithMaxItems", n |-> -1]>>
    /\ d.maxItems = 2

---------------------------------------------------------------------------
\* the last call on the transport is a RoundTrip
RoundTripped == tp.made /\ tp.ret.op = "RoundTrip"

\* the debug flag as the calls made so far set it: the argument of the most
\* recent SetDebug, or HTTP_DEBUG at construction when there was none
DebugFlag == IF tp.set # <<>> THEN tp.set[1] ELSE tp.env

\* the call reached the inner transport, which returned a response
InnerSucceeded == ~tp.ret.req.malformed /\ tp.ret.inner.err = NilErr

\* the call wrote nothing to the sink
NothingDumped == tp.ret.dumped = <<>> /\ Len(tp.sink) = tp.ret.before

(* C12: with debug enabled, when the inner round trip succeeds but         *)
(* DumpResponse fails, RoundTrip returns a nil response and an error that  *)
(* wraps the capture error with the context "HTTPDebugTransport: failed to *)
(* dump response", and nothing is dumped.                                  *)
C12_ResponseDumpFailureReported ==
    RoundTripped /\ DebugFlag /\ InnerSucceeded /\ ~tp.ret.inner.resp.readable
        => /\ tp.ret.resp = NilResp
           /\ tp.ret.err # NilErr
           /\ tp.ret.err[1] = "HTTPDebugTransport: failed to dump response"
           /\ ErrorsIs(tp.ret.err, DumpResponse(tp.ret.inner.resp).err)
           /\ NothingDumped

(* C13: with debug enabled, when the inner transport's RoundTrip returns   *)
(* an error, RoundTrip returns an error that wraps it (errors.Is holds,    *)
(* the message ends with the inner text) and the Dumper is not called:     *)
(* nothing is written to the sink.                                         *)
C13_InnerErrorWrapped ==
    RoundTripped /\ DebugFlag /\ ~tp.ret.req.malformed /\ tp.ret.inner.err # NilErr
        => /\ tp.ret.err # NilErr
           /\ ErrorsIs(tp.ret.err, tp.ret.inner.err)
           /\ tp.ret.err[Len(tp.ret.err)] = tp.ret.inner.err[Len(tp.ret.inner.err)]
           /\ NothingDumped

\* the simulated network error with SetDebug(true)
C13_Witness ==
    /\ RoundTripped /\ tp.set = <<TRUE>> /\ ~tp.ret.req.malformed
    /\ tp.ret.inner.err = ErrSimulatedNetwork
    /\ tp.ret.err = <<"HTTPDebugTransport: round trip failed">> \o ErrSimulatedNetwork
    /\ tp.ret.innerCalls = 1

(* C14: with debug enabled, when DumpRequestOut fails on a malformed       *)
(* request, RoundTrip returns a nil response and an error with the context *)
(* "HTTPDebugTransport: failed to dump request"; the inner transport is    *)
(* not invoked and the Dumper is not called.                               *)
C14_RequestDumpFailure ==
    RoundTripped /\ DebugFlag /\ tp.ret.req.malformed
        => /\ tp.ret.resp = NilResp
           /\ tp.ret.err # NilErr
           /\ tp.ret.err[1] = "HTTPDebugTransport: failed to dump request"
           /\ tp.ret.innerCalls = 0
           /\ NothingDumped

\* the malformed request with debug enabled, the inner transport ready to
\* answer
C14_Witness ==
    /\ RoundTripped /\ DebugFlag /\ tp.ret.req.malformed
    /\ tp.ret.inner = [resp |-> OkResp, err |-> NilErr]
    /\ tp.ret.err = <<"HTTPDebugTransport: failed to dump request",
                      "unsupported protocol scheme">>

(* C15: with debug disabled RoundTrip is a pass-through that never calls   *)
(* the Dumper; when the inner transport fails it returns a nil response    *)
(* and an error that wraps the inner error with the context                *)
(* "HTTPDebugTransport: pass-through round trip failed".                   *)
C15_PassThrough ==
    RoundTripped /\ ~DebugFlag
        => /\ NothingDumped
           /\ tp.ret.innerCalls = 1
           /\ tp.ret.inner.err = NilErr
                => tp.ret.resp = tp.ret.inner.resp /\ tp.ret.err = NilErr
           /\ tp.ret.inner.err # NilErr
                => /\ tp.ret.resp = NilResp
                   /\ ErrorsIs(tp.ret.err, tp.ret.inner.err)
                   /\ tp.ret.err[1] = "HTTPDebugTransport: pass-through round trip failed"

(* C16: in any sequence of SetDebug and successful RoundTrip calls (calls  *)
(* that return a nil error), each RoundTrip writes exactly one dump, a map *)
(* keyed "Transaction" holding "Request", "Response" and "Duration", if    *)
(* the flag of the most recent SetDebug (or of HTTP_DEBUG at construction) *)
(* is true, and nothing if it is false; it returns the inner transport's   *)
(* response.                                                               *)
C16_DumpFollowsFlag ==
    RoundTripped /\ tp.ret.err = NilErr
        => /\ tp.ret.resp = tp.ret.inner.resp
           /\ tp.ret.inner.err = NilErr
           /\ ~DebugFlag => NothingDumped
           /\ DebugFlag
                => /\ Len(tp.ret.dumped) = 1
                   /\ Len(tp.sink) = tp.ret.before + 1
                   /\ tp.sink[Len(tp.sink)] = tp.ret.dumped[1]
                   /\ DOMAIN tp.ret.dumped[1] = {"Transaction"}
                   /\ DOMAIN tp.ret.dumped[1].Transaction
                        = {"Request", "Response", "Duration"}

---------------------------------------------------------------------------
\* the output without the header and the line breaks between arguments
Body(out) == SelectSeq(out, LAMBDA k : k.t \notin {"header", "newline"})

\* the cell whose String method a "String" token stands for
Receiver(k) == Heap[k.n]

\* the token that follows the line of field name
AfterField(out, name) ==
    LET p == CHOOSE i \in 1 .. Len(out) : out[i].t \in {"+", "-"} /\ out[i].name = name
    IN  out[p + 1]

NilCells == {Heap[a] : a \in 101 .. 106}

\* the body of a struct whose fields are all rendered as nil
AllNilFields(c) ==
    /\ Len(Body(last.out)) = 2 * Len(c.fields) + 2
    /\ Body(last.out)[1] = Tok("struct", c.id)
    /\ \A i \in 1 .. Len(c.fields) :
          /\ Body(last.out)[2 * i].name = c.fields[i].name
          /\ Body(last.out)[2 * i + 1] = Tok("nil", 0)
    /\ Body(last.out)[2 * Len(c.fields) + 2] = Tok("}", 0)

---------------------------------------------------------------------------
\* the last call is DumpJSONStr
DumpedJSON == last.op = "DumpJSONStr"

\* encoding/json cannot encode the value in c: it holds a channel or a
\* function in an exported place, or it is cyclic
Unencodable(c) ==
    \/ c.kind \in {"chan", "func"}
    \/ c = Heap[3]

\* the text is an object with the one member "error", a string
IsErrorObject(j) ==
    /\ j[1] = "object" /\ Len(j[2]) = 1
    /\ j[2][1][1] = "error" /\ j[2][1][2][1] = "string"

(* C19: DumpJSONStr never raises and always returns a string: with no      *)
(* argument the error object for "DumpJSON called with no arguments"; with *)
(* one argument the encoding of that argument itself; with two or more one *)
(* JSON array of their encodings in argument order; and when encoding      *)
(* fails a JSON object {"error": <message>}.                               *)
C19_DumpJSONStr ==
    DumpedJSON
        => /\ last.status = "done"
           /\ Len(last.vs) = 0
                => last.out = ErrorObject("DumpJSON called with no arguments")
           /\ (\E i \in 1 .. Len(last.vs) : Unencodable(last.vs[i]))
                => IsErrorObject(last.out) /\ last.out[2][1][2][2] # ""
           /\ Len(last.vs) >= 1 /\ (\A i \in 1 .. Len(last.vs) : ~Unencodable(last.vs[i]))
                => /\ ~IsErrorObject(last.out)
                   /\ Len(last.vs) = 1 => last.out = marshal(last.vs[1], {}).json
                   /\ Len(last.vs) >= 2
                        => /\ last.out[1] = "array"
                           /\ Len(last.out[2]) = Len(last.vs)
                           /\ \A k \in 1 .. Len(last.vs) :
                                 last.out[2][k] = marshal(last.vs[k], {}).json
           /\ last.vs = <<Heap[24]>> => last.out = JNum(7)
           /\ last.vs = <<Heap[104]>> => last.out = JNull
           /\ last.vs = <<SliceCell(0, IntSlots(2))>>
                => last.out = JArray(<<JNum(1), JNum(2)>>)

\* DumpJSONStr(7, "a") and the array it returns
C19_Witness ==
    /\ DumpedJSON
    /\ last.vs = <<Heap[24], StringCell(0, <<97>>)>>
    /\ last.out = JArray(<<JNum(7), JStr(<<97>>)>>)

---------------------------------------------------------------------------
\* the indexes of the frames of cs between 2 and 9 that are not internal:
\* the function is unknown or has no "godump" in its name, or the file ends
\* in _test.go
NonInternal(cs) ==
    {i \in 2 .. 9 : i < Len(cs) /\ (~cs[i + 1].godump \/ cs[i + 1].test)}

(* C20: findFirstNonInternalFrame examines the frames from index 2 up to   *)
(* index 9 and returns the (skip+1)-th of them that is non-internal; when  *)
(* the caller lookup fails or fewer than skip+1 such frames exist within   *)
(* that bound it returns ("", 0), and printDumpHeader then writes nothing. *)
C20_HeaderFrame ==
    last.op = "printDumpHeader"
        => LET skip == last.policy.skippedStackFrames
               NI == NonInternal(last.cs)
           IN  /\ Cardinality(NI) >= skip + 1
                    => \E i \in NI :
                          /\ Cardinality({j \in NI : j < i}) = skip
                          /\ last.frame = [file |-> last.cs[i + 1].file,
                                           line |-> last.cs[i + 1].line]
                          /\ last.out = <<Tok("header", last.cs[i + 1].line)>>
               /\ Cardinality(NI) < skip + 1
                    => last.frame = NoFrame /\ last.out = <<>>

\* skip 1 with non-internal frames 3 and 5: frame 5; and a stack whose only
\* non-internal frame is frame 10: nothing
C20_Witness ==
    /\ last.op = "printDumpHeader"
    /\ \/ /\ last.policy.skippedStackFrames = 1
          /\ NonInternal(last.cs) = {3, 5}
          /\ last.out = <<Tok("header", 105)>>
       \/ /\ last.policy.skippedStackFrames = 0
          /\ Len(last.cs) = 11 /\ ~last.cs[11].godump
          /\ NonInternal(last.cs) = {}
          /\ last.out = <<>>


---------------------------------------------------------------------------
\* a non-nil slice or array whose element kind is uint8
ByteLike(c) ==
    /\ c.kind \in {"slice", "array"}
    /\ c.elem # ""
    /\ c.kind = "slice" => c.to # 0

(* C21: every non-nil slice or array whose element kind is uint8, given   *)
(* as the argument of a render, is rendered by the hex-dump formatter and  *)
(* never by the generic index => value renderer.                           *)
C21_ByteLikeHexDumped ==
    \A c \in ByteArgs :
        (ByteLike(c) /\ last.op = "DumpStr" /\ last.vs = <<c>>) =>
            /\ last.status = "done"
            /\ Count(last.out, "hexdump") = 1
            /\ Count(last.out, "[") = 0
            /\ Count(last.out, "index") = 0


---------------------------------------------------------------------------
\* the lines of a text: what stands between its line feeds
RECURSIVE TextLines(_)
TextLines(text) ==
    IF \A i \in 1 .. Len(text) : text[i] # 10 THEN <<text>>
    ELSE LET p == CHOOSE i \in 1 .. Len(text) :
                    text[i] = 10 /\ \A j \in 1 .. i - 1 : text[j] # 10
         IN  <<SubSeq(text, 1, p - 1)>> \o TextLines(SubSeq(text, p + 1, Len(text)))

\* the number a text of hexadecimal digits denotes, -1 when it is none
RECURSIVE HexValue(_)
HexValue(digits) ==
    IF digits = <<>> THEN 0
    ELSE LET c == digits[Len(digits)]
             v == IF c \in 48 .. 57 THEN c - 48
                  ELSE IF c \in 97 .. 102 THEN c - 87
                  ELSE -1
             rest == HexValue(SubSeq(digits, 1, Len(digits) - 1))
         IN  IF v < 0 \/ rest < 0 THEN -1 ELSE 16 * rest + v

(* C22: the hex dump of N bytes is the header, ceil(N/16) body lines and   *)
(* the closing brace; body line k shows the offset 16*k and the bytes      *)
(* 16*k .. min(16*k+16, N)-1 in order; the hex columns a short last line   *)
(* lacks are blank, so that the ASCII column starts where it starts on a   *)
(* full line; the ASCII character of a byte is the byte when it is in      *)
(* 0x20 .. 0x7e and '.' otherwise, one for each byte of the line.          *)
C22_HexDumpLayout ==
    last.op = "formatByteSliceAsHexDump" =>
        LET b == last.vs[1].b
            N == Len(b)
            ind == last.indent * indentWidth
            lines == TextLines(last.out[1].s)
            rows == (N + 15) \div 16
            Col(j) == ind + 10 + 3 * j + (IF j >= 8 THEN 1 ELSE 0)
            Ascii == ind + 62
        IN  /\ Len(lines) = rows + 2
            /\ SubSeq(lines[1], 1, 10) = <<40, 91, 93, 117, 105, 110, 116, 56, 41, 32>>
            /\ lines[1][Len(lines[1])] = 123
            /\ lines[rows + 2] = Spaces(ind - indentWidth) \o <<125>>
            /\ \A k \in 0 .. rows - 1 :
                 LET ln == lines[k + 2]
                     present == IF N - 16 * k < 16 THEN N - 16 * k ELSE 16
                 IN  /\ Len(ln) = ind + 80
                     /\ SubSeq(ln, 1, ind) = Spaces(ind)
                     /\ HexValue(SubSeq(ln, ind + 1, ind + 8)) = 16 * k
                     /\ \A j \in 0 .. 15 :
                          IF j < present
                          THEN HexValue(SubSeq(ln, Col(j) + 1, Col(j) + 2)) = b[16 * k + j + 1]
                          ELSE SubSeq(ln, Col(j) + 1, Col(j) + 3) = <<32, 32, 32>>
                     /\ ln[Ascii - 1] = 124
                     /\ ln[Ascii] = 32
                     /\ \A j \in 0 .. 15 :
                          ln[Ascii + 1 + j] =
                            IF j >= present THEN 32
                            ELSE IF b[16 * k + j + 1] >= 32 /\ b[16 * k + j + 1] <= 126
                                 THEN b[16 * k + j + 1]
                                 ELSE 46
                     /\ SubSeq(ln, ind + 79, ind + 80) = <<32, 124>>

\* a dump of more than one line with a short last line, a control
\* character and a printable byte
C22_Witness ==
    /\ last.op = "formatByteSliceAsHexDump"
    /\ Len(last.vs[1].b) > 16
    /\ Len(last.vs[1].b) % 16 # 0
    /\ \E i \in 1 .. Len(last.vs[1].b) : last.vs[1].b[i] < 32
    /\ \E i \in 1 .. Len(last.vs[1].b) : last.vs[1].b[i] \in 32 .. 126
    /\ Len(TextLines(last.out[1].s)) = 4


---------------------------------------------------------------------------
(* C23: a render call (DumpStr, DumpHTML) stores to no traversed value and *)
(* leaves the Dumper's policy as it was; what it writes is the reference   *)
(* table with its id counter and, in DumpStr, the colorizer chosen at the  *)
(* first use.                                                              *)
C23_RenderFrame ==
    [][last'.op \in {"DumpStr", "DumpHTML"} =>
          /\ Policy(d') = Policy(d)
          /\ last'.policy = Policy(d)
          /\ d'.colorizer # d.colorizer =>
                /\ last'.op = "DumpStr"
                /\ d.colorizer = "nil"
                /\ d'.colorizer = newColorizer(noColor)
          /\ last'.stores \subseteq {NewStorage}
          /\ <<built, noColor, run, tp>>' = <<built, noColor, run, tp>>]_vars

\* a completed render by a Dumper with a limit set: a struct was copied to
\* make it addressable, a pointer was registered, the colorizer was chosen
C23_Witness ==
    /\ last.op = "DumpStr"
    /\ last.status = "done"
    /\ built # <<>>
    /\ last.stores = {NewStorage}
    /\ last.refs # EmptyMap
    /\ d.colorizer = "ANSI"


---------------------------------------------------------------------------
\* the tokens that open and close a struct, a map, a slice or an array
Opens(t) == t \in {"struct", "{", "["}
Closes(t) == t \in {"}", "]"}

\* how many of them are open at position p
Nesting(out, p) ==
    Cardinality({q \in 1 .. p - 1 : Opens(out[q].t)})
      - Cardinality({q \in 1 .. p - 1 : Closes(out[q].t)})

\* the closing brace of the struct that opens at p
StructEnd(out, p) ==
    CHOOSE q \in p + 1 .. Len(out) :
        /\ Closes(out[q].t)
        /\ Nesting(out, q) = Nesting(out, p) + 1
        /\ \A r \in p + 1 .. q - 1 :
              ~(Closes(out[r].t) /\ Nesting(out, r) = Nesting(out, p) + 1)

\* the positions of its own field lines
OwnFields(out, p) ==
    {q \in p + 1 .. StructEnd(out, p) - 1 :
        out[q].t \in {"+", "-"} /\ Nesting(out, q) = Nesting(out, p) + 1}

(* C24: in a completed render every struct shown has one line for each of  *)
(* its declared fields, in the order of the declaration, each once, with   *)
(* '+' before an exported and '-' before an unexported name; the value of  *)
(* an unexported field follows like any other value (the quoted text of a  *)
(* string, the number of an int), and an embedded struct is a field whose  *)
(* value is the nested struct.                                             *)
C24_StructFields ==
    (last.op = "DumpStr" /\ last.status = "done") =>
        \A p \in Positions(last.out, "struct") :
            LET c == Heap[last.out[p].n]
                own == OwnFields(last.out, p)
                Nth(k) == CHOOSE q \in own : Cardinality({r \in own : r < q}) = k - 1
            IN  /\ Cardinality(own) = Len(c.fields)
                /\ \A k \in 1 .. Len(c.fields) :
                     LET q == Nth(k)
                         fld == c.fields[k]
                         fc == Heap[fld.slot]
                         val == last.out[q + 1]
                     IN  /\ last.out[q].name = fld.name
                         /\ last.out[q].t = (IF fld.exported THEN "+" ELSE "-")
                         /\ val.t \notin {"+", "-", "}", "newline"}
                         /\ val.t # "max depth" =>
                              CASE fc.kind = "int" -> val = Tok("int", fc.num)
                                [] fc.kind = "string" ->
                                     val = StrTok(TruncateString(last.policy,
                                                                 escapeControl(fc.runes)))
                                [] fc.kind = "struct" -> val = Tok("struct", fc.id)
                                [] OTHER -> TRUE

\* a struct held in a map is rendered with its five fields, the unexported
\* string and the unexported embedded struct among them
C24_Witness ==
    /\ Rendered(Heap[507])
    /\ \E p \in Positions(last.out, "struct") :
          /\ last.out[p].n = 505
          /\ Cardinality(OwnFields(last.out, p)) = 5
    /\ \E q \in Positions(last.out, "-") :
          /\ last.out[q].name = "secret"
          /\ last.out[q + 1] = StrTok(<<97, 92, 110>>)
    /\ \E q \in Positions(last.out, "-") :
          /\ last.out[q].name = "base"
          /\ last.out[q + 1] = Tok("struct", 501)


---------------------------------------------------------------------------
(* C25: the depth guard comes before every other rule: a field, a map      *)
(* value or an element at a depth above maxDepth is shown as the max depth *)
(* marker alone, whatever its kind and whether or not it has a String      *)
(* method, which is not called.                                            *)
C25_DepthGuardFirst ==
    (last.op = "DumpStr" /\ last.status = "done") =>
        \A q \in 1 .. Len(last.out) :
            (/\ last.out[q].t \in {"+", "-", "key", "index"}
             /\ Nesting(last.out, q) > last.policy.maxDepth) =>
                last.out[q + 1] = Tok("max depth", 0)


---------------------------------------------------------------------------
(* C26: a string whose rune count is at most maxStringLen, a control       *)
(* character counting as one rune, is rendered in full: its escaped text   *)
(* and no ellipsis; and no rendered string ends in the backslash of a      *)
(* cut escape.                                                             *)
C26_CutOnlyWhenLonger ==
    \A s \in SeqsUpTo(Runes, MaxStrLen) :
        LET K == last.policy.maxStringLen
            body == last.out[Len(last.out) - 1].s
            text == IF body # <<>> /\ body[Len(body)] = Ellipsis[1]
                    THEN SubSeq(body, 1, Len(body) - 1)
                    ELSE body
        IN  Rendered(StringCell(0, s))
            => /\ Len(s) <= K => body = escapeControl(s)
               /\ text # <<>> => text[Len(text)] # 92


---------------------------------------------------------------------------
\* the positions of the line breaks that end the arguments, in order
Breaks(out) == Positions(out, "newline")
NthBreak(out, k) ==
    CHOOSE q \in Breaks(out) : Cardinality({r \in Breaks(out) : r < q}) = k - 1

\* the tokens of argument k of a completed render
Segment(out, k) ==
    LET from == IF k = 1
                THEN (IF out # <<>> /\ out[1].t = "header" THEN 2 ELSE 1)
                ELSE NthBreak(out, k - 1) + 1
    IN  SubSeq(out, from, NthBreak(out, k) - 1)

\* the addresses the render of the argument a alone registers
RegisteredBy(a) ==
    DOMAIN DumpStr(last.policy, FALSE, last.cs, Identity, <<a>>, last.start).referenceMap

\* the addresses the pointers of a value graph point to
Pointees(c) ==
    {Heap[x].to : x \in {y \in ReachFrom(Children(c)) : Heap[y].kind = "ptr"}}
      \cup (IF c.kind = "ptr" THEN {c.to} ELSE {})

(* C27: in a render of two arguments the reference table is not cleared    *)
(* between them: an address registered while the first was rendered is     *)
(* found when the second reaches it, which shows the back-reference marker *)
(* with the same id and does not expand the pointee again.                 *)
C27_TableKeptAcrossArguments ==
    (/\ last.op = "DumpStr"
     /\ last.status = "done"
     /\ Len(last.vs) = 2
     /\ last.policy.maxDepth >= 2) =>
        \A A \in RegisteredBy(last.vs[1]) \cap Pointees(last.vs[2]) :
            /\ A \in DOMAIN last.refs
            /\ CountN(Segment(last.out, 2), "ref", last.refs[A]) >= 1
            /\ CountN(Segment(last.out, 2), "struct", A) = 0


---------------------------------------------------------------------------
\* the step is one of a render in progress
RenderStep == run[1].state = "running" /\ run'[1].state # "idle"

---------------------------------------------------------------------------
\* the request capture step ran and rejected the request
Rejected == DebugFlag /\ DumpRequestOut(tp.ret.req).err # NilErr

(* C29: a RoundTrip call invokes the inner transport's RoundTrip at most   *)
(* once, whether debug is on or off and whether the call succeeds or       *)
(* fails, and exactly once unless the request capture rejected the         *)
(* request.                                                                *)
C29_InnerCalledOnce ==
    RoundTripped =>
        /\ tp.ret.innerCalls <= 1
        /\ ~Rejected => tp.ret.innerCalls = 1
        /\ Rejected => tp.ret.innerCalls = 0

\* debug on, the request captured, the inner transport fails: one call
C29_Witness ==
    /\ RoundTripped
    /\ DebugFlag
    /\ ~Rejected
    /\ tp.ret.inner.err # NilErr
    /\ tp.ret.err # NilErr
    /\ tp.ret.innerCalls = 1


---------------------------------------------------------------------------
(* C30: DumpHTML works on a clone and leaves the receiver as it was, its   *)
(* colorizer and its limits: its own output has the HTML markup also after *)
(* a DumpStr chose the receiver's colorizer, and a DumpStr after it has    *)
(* none of the HTML markup.                                                *)
C30_DumpHTMLOnClone ==
    [][/\ last'.op = "DumpHTML" =>
            /\ d' = d
            /\ last'.style = "HTML"
            /\ last'.markup = "HTML"
       /\ (last.op = "DumpHTML" /\ last'.op = "DumpStr") =>
            /\ last'.policy = last.policy
            /\ last'.style = newColorizer(noColor)
            /\ last'.markup = newColorizer(noColor)]_vars

\* a DumpHTML after a DumpStr, by a Dumper with a limit set: the receiver
\* keeps the colorizer the DumpStr chose, the output has the HTML markup
C30_Witness ==
    /\ last.op = "DumpHTML"
    /\ last.status = "done"
    /\ prev.op = "DumpStr"
    /\ built # <<>>
    /\ d.colorizer = "ANSI"
    /\ Policy(d) = last.policy
    /\ last.markup = "HTML"

=============================================================================
